---- MODULE Spec2Model ----
(***************************************************************************)
(* DP-OCR book reader: the trigger coordinator (BookReader.run), the       *)
(* single-flight pipeline (BookReader.process_trigger and its background   *)
(* thread BookReader._processing_worker) and the debounced click detector  *)
(* (_detect_click of BookReader and of GPIOButtonService).                 *)
(*                                                                         *)
(* Spec        the coordinator and the pipeline, one record per trigger;   *)
(*             SpecFair adds that its threads are scheduled.               *)
(* SpecDetect  the click detector over a sampled line, time in units of    *)
(*             10 ms (the detector's poll interval); SpecDetectFair adds   *)
(*             that the loop thread is scheduled and time passes.          *)
(* SpecService construction, start and stop of a GPIOButtonService.        *)
(* SpecClassify one call of OpenAIVisionService.should_perform_ocr, over   *)
(*             what the OpenAI request can raise or answer.                *)
(* SpecNotify  GPIOButtonService._notify_callbacks with callbacks that are *)
(*             registered and removed and may raise.                       *)
(* SpecGlobal  the module-level service of gpio_button_service.py:         *)
(*             init_gpio_service, cleanup_gpio_service, get_gpio_service.  *)
(* SpecWeb     one call of process_ocr of the web variants                 *)
(*             (BookReaderRemote, BookReaderStreamlit), over what the      *)
(*             classifier and the OCR request can do.                      *)
(* SpecResults the result history of the web variants: add_ocr_result and  *)
(*             the clearing of the list.                                   *)
(***************************************************************************)
EXTENDS Integers, Sequences, FiniteSets, TLC

VARIABLES
    \* ---- coordinator and pipeline (book_reader.py) ----
    simulation_mode,     \* BookReader.simulation_mode
    enable_preanalysis,  \* BookReader.enable_preanalysis (openai_service is set iff TRUE)
    running,             \* BookReader.running
    mpc,                 \* position of the main thread in run / process_trigger / play_sound
    button,              \* the level of the trigger line as the run loop reads it
    n,                   \* number of process_trigger invocations so far
    result_dict,         \* trigger -> the result_dict of that process_trigger call
    wpc,                 \* trigger -> position of the worker thread started for it
    wlocal,              \* trigger -> the worker's locals (custom_prompt, text, err)
    hist,                \* trigger -> what the collaborators were asked to do
    shown,               \* status text last handed to _update_preview
    \* ---- click detector (gpio_button_service.py, book_reader.py) ----
    debounce_delay,      \* self.debounce_delay, in ticks
    dpc,                 \* position inside _run_loop / _detect_click
    wake,                \* ticks left of the current time.sleep
    line,                \* level of the line during the current tick (TRUE: asserted)
    drunning,            \* self.running of the polling loop
    elapsed,             \* time.time() - press_time, in ticks
    held,                \* length in ticks of the asserted interval being followed
    origin,              \* what the loop was doing when that interval began
    edges,               \* asserted intervals seen by the current _detect_click call
    reasserted,          \* the line was asserted during the release debounce sleep
    ret,                 \* why the last _detect_click call returned
    clicks,              \* clicks emitted so far
    lastDuration,        \* press_duration computed by the last call that got that far
    rises,               \* asserted intervals of the line begun so far (up to MaxClicks)
    \* ---- life cycle of a GPIOButtonService (gpio_button_service.py) ----
    gpio_backend,        \* GPIO_BACKEND as _init_gpio left it ("None": GPIO_AVAILABLE False)
    svc,                 \* "none", "ready" (constructed) or "raised" (__init__ raised)
    requested_sim,       \* the simulation_mode argument of __init__
    svc_simulation,      \* self.simulation_mode
    hw_setup,            \* how _setup_gpio went: "not_run", "ok" or "raised"
    held_res,            \* hardware resources held: chip, line (gpiod), pin (RPi.GPIO)
    svc_running,         \* self.running
    loops,               \* _run_loop threads that have not ended
    spc,                 \* position of the caller inside stop ("idle": not in a call)
    last,                \* the last call that returned: "none", "init", "start", "stop"
    calls,               \* start and stop calls made so far
    \* ---- should_perform_ocr (openai_vision_service.py) ----
    api_reply,           \* what client.chat.completions.create raises or answers
    vpc,                 \* position inside should_perform_ocr
    analysis_result,     \* the dictionary returned by analyze_image
    verdict,             \* the pair returned by should_perform_ocr
    \* ---- _notify_callbacks (gpio_button_service.py) ----
    callbacks,           \* self.callbacks
    npc,                 \* position of the loop thread: "loop", "notify" or "dead"
    cb_i,                \* items the for loop of _notify_callbacks has taken
    cb_log,              \* <<callback, outcome>> of each call made for the last click
    cb_changed,          \* self.callbacks was changed since the last click
    cb_start,            \* self.callbacks as it was when the last notification began
    notified,            \* _notify_callbacks calls that returned
    prev_raised,         \* a callback raised during one of them
    \* ---- the global service (gpio_button_service.py 473-516) ----
    gpio_service,        \* _gpio_service: 0 for None, else the number of the instance
    inst,                \* instance -> whether it exists, its running and simulation_mode
    created,             \* GPIOButtonService objects constructed so far
    glast,               \* the last call that returned, and how
    \* ---- process_ocr of the web variants ----
    web_in,              \* the variant, its configuration and what the collaborators do
    web_pc,              \* position inside process_ocr
    web,                 \* locals of the call, what it sent and what it returned
    \* ---- result history of the web variants ----
    ocr_results,         \* self.ocr_results, each result by its number
    added,               \* add_ocr_result calls so far
    rlast                \* the last operation on the history

pvars == <<simulation_mode, enable_preanalysis, running, mpc, button, n,
           result_dict, wpc, wlocal, hist, shown>>
dvars == <<debounce_delay, dpc, wake, line, drunning, elapsed, held, origin,
           edges, reasserted, ret, clicks, lastDuration, rises>>
svars == <<gpio_backend, svc, requested_sim, svc_simulation, hw_setup, held_res,
           svc_running, loops, spc, last, calls>>
cvars == <<api_reply, vpc, analysis_result, verdict>>
nvars == <<callbacks, npc, cb_i, cb_log, cb_changed, cb_start, notified,
           prev_raised>>
gvars == <<gpio_service, inst, created, glast>>
wvars == <<web_in, web_pc, web>>
rvars == <<ocr_results, added, rlast>>
xvars == <<gvars, wvars, rvars>>
vars == <<pvars, dvars, svars, cvars, nvars, xvars>>

----------------------------------------------------------------------------
(* Bounds *)

MaxTriggers == 2

Triggers == 1..MaxTriggers

\* GPIOButtonService objects init_gpio_service constructs in one run.
MaxInstances == 4

Instances == 1..MaxInstances

----------------------------------------------------------------------------
(* Values *)

None == "None"

\* Texts the OCR service can answer with (HTTP 200): non-blank, empty, blank.
Texts == {"Hello", "", "  "}

\* str.strip() on the texts above.
Strip(t) == IF t \in {"", "  "} THEN "" ELSE t

\* Python truthiness of an optional string.
Truthy(s) == s # None /\ s # ""

\* Exceptions a collaborator call can raise inside the worker.
OcrErrors == {"Timeout", "ConnectionError", "RequestException", "ValueError"}
ClassifierErrors == {"RuntimeError"}

\* status values the worker writes
TerminalStatus == {"completed", "skipped", "error"}

\* The dictionary process_trigger creates before starting the worker.
NewResultDict ==
    [status |-> "starting", ocr_text |-> None, error |-> None,
     error_type |-> None, skip_reason |-> None]

\* No dictionary yet (process_trigger not called, or capture failed).
NoResultDict ==
    [status |-> "absent", ocr_text |-> None, error |-> None,
     error_type |-> None, skip_reason |-> None]

NewLocals == [custom_prompt |-> None, text |-> None, err |-> None, reason |-> None]

\* self.ocr_prompt, the configured default instruction.
ocr_prompt == "config_prompt"

\* The instruction should_perform_ocr falls back to when the analysis failed.
FreeOcrPrompt == "free_ocr"

\* What should_perform_ocr can hand back: (True, prompt), (False, reason), or an
\* exception raised by the call (or by cv2.imencode before it).
ClassifierOutcomes ==
    {<<"text", p>> : p \in {"suggested", FreeOcrPrompt}}
        \cup {<<"no_text", "no text in image">>}
        \cup {<<"raise", e>> : e \in ClassifierErrors}

\* What send_to_ocr_api can do: return the text (HTTP 200), return None (any other
\* status code), or let an exception of requests.post / response.json escape.
OcrOutcomes ==
    {<<"text", t>> : t \in Texts} \cup {<<"none", None>>}
        \cup {<<"raise", e>> : e \in OcrErrors}

\* str(err) as stored in result_dict['error'].
ErrMsg(kind) == IF kind = "OCRError" THEN "OCR API returned None" ELSE "str(exception)"

ExceptClauseRequestsOnly(e) ==
    CASE e = "Timeout" -> "Timeout"
      [] e = "ConnectionError" -> "ConnectionError"
      [] e = "RequestException" -> "RequestException"
      [] OTHER -> "none"

\* The except clause of _processing_worker (lines 536, 545, 553, 560) that catches
\* an exception of class e raised inside the try block; "none" if no clause does.
ExceptClause(e) ==
    CASE e = "Timeout" -> "Timeout"
      [] e = "ConnectionError" -> "ConnectionError"
      [] e = "RequestException" -> "RequestException"
      [] OTHER -> "Exception"

ErrorTypeUnknown(e) == "Unknown"

\* result_dict['error_type'] as that clause sets it (lines 539, 548, 556, 563): a
\* fixed name, or the class name in the generic clause.
ErrorType(e) == IF ExceptClause(e) = "Exception" THEN e ELSE ExceptClause(e)

NewHist ==
    [captured |-> "none", cls |-> "not_called", ocr |-> <<"not_called", None>>,
     clsCalls |-> 0,
     ocrCalls |-> 0, prompt |-> None, cues |-> <<>>, returned |-> FALSE]

----------------------------------------------------------------------------
(* BookReader._processing_worker: one action per write to result_dict and per  *)
(* collaborator call, in program order.                                       *)

\* threading.Thread.is_alive() of the thread started for trigger t.
ThreadIsAlive(t) == wpc[t] \notin {"none", "dead"}

SetField(t, f, v) == result_dict' = [result_dict EXCEPT ![t][f] = v]

\* line 493-494 (pre-analysis enabled) or line 521 (disabled): the first write.
WorkerBegin(t) ==
    /\ wpc[t] = "begin"
    /\ IF enable_preanalysis /\ wlocal[t].custom_prompt = None
          THEN /\ SetField(t, "status", "openai_analysis")
               /\ wpc' = [wpc EXCEPT ![t] = "classify"]
          ELSE /\ SetField(t, "status", "ocr_processing")
               /\ wpc' = [wpc EXCEPT ![t] = "ocr"]
    /\ UNCHANGED <<dvars, svars, cvars, nvars, xvars>>
    /\ UNCHANGED <<simulation_mode, enable_preanalysis, running, mpc, button, n,
                   wlocal, hist, shown>>

\* lines 500-518: encode the frame, ask the classifier, branch on its answer. An
\* exception leaves the try block for the except clause that catches it (line
\* 560 for the classifier's); one that no clause catches ends the thread.
WorkerClassify(t) ==
    /\ wpc[t] = "classify"
    /\ \E out \in ClassifierOutcomes :
          /\ hist' = [hist EXCEPT ![t].cls = out[1],
                                  ![t].clsCalls = hist[t].clsCalls + 1]
          /\ CASE out[1] = "text" ->
                     /\ wlocal' = [wlocal EXCEPT ![t].custom_prompt = out[2]]
                     /\ wpc' = [wpc EXCEPT ![t] = "set_ocr"]
               [] out[1] = "no_text" ->
                     /\ wlocal' = [wlocal EXCEPT ![t].reason = out[2]]
                     /\ wpc' = [wpc EXCEPT ![t] = "set_skipped"]
               [] out[1] = "raise" ->
                     /\ wlocal' = [wlocal EXCEPT ![t].err = ErrorType(out[2])]
                     /\ wpc' = [wpc EXCEPT ![t] =
                                   IF ExceptClause(out[2]) = "none"
                                     THEN "dead" ELSE "set_error"]
    /\ UNCHANGED <<dvars, svars, cvars, nvars, xvars>>
    /\ UNCHANGED <<simulation_mode, enable_preanalysis, running, mpc, button, n,
                   result_dict, shown>>

\* line 516
WorkerSetSkipped(t) ==
    /\ wpc[t] = "set_skipped"
    /\ SetField(t, "status", "skipped")
    /\ wpc' = [wpc EXCEPT ![t] = "set_skip_reason"]
    /\ UNCHANGED <<dvars, svars, cvars, nvars, xvars>>
    /\ UNCHANGED <<simulation_mode, enable_preanalysis, running, mpc, button, n,
                   wlocal, hist, shown>>

WorkerSetSkipReasonFallsThrough(t) ==
    /\ wpc[t] = "set_skip_reason"
    /\ SetField(t, "skip_reason", wlocal[t].reason)
    /\ wpc' = [wpc EXCEPT ![t] = "set_ocr"]
    /\ UNCHANGED <<dvars, svars, cvars, nvars, xvars>>
    /\ UNCHANGED <<simulation_mode, enable_preanalysis, running, mpc, button, n,
                   wlocal, hist, shown>>

\* lines 517-518: the last write, then return: the thread ends.
WorkerSetSkipReason(t) ==
    /\ wpc[t] = "set_skip_reason"
    /\ SetField(t, "skip_reason", wlocal[t].reason)
    /\ wpc' = [wpc EXCEPT ![t] = "dead"]
    /\ UNCHANGED <<dvars, svars, cvars, nvars, xvars>>
    /\ UNCHANGED <<simulation_mode, enable_preanalysis, running, mpc, button, n,
                   wlocal, hist, shown>>

\* line 521, reached after a classification that found text
WorkerSetOcr(t) ==
    /\ wpc[t] = "set_ocr"
    /\ SetField(t, "status", "ocr_processing")
    /\ wpc' = [wpc EXCEPT ![t] = "ocr"]
    /\ UNCHANGED <<dvars, svars, cvars, nvars, xvars>>
    /\ UNCHANGED <<simulation_mode, enable_preanalysis, running, mpc, button, n,
                   wlocal, hist, shown>>

\* send_to_ocr_api line 806: the instruction that is posted.
PromptToUse(custom_prompt) ==
    IF Truthy(custom_prompt) THEN custom_prompt ELSE ocr_prompt

\* line 526 with send_to_ocr_api (783-836): post the frame, return text or None,
\* or raise into the handlers of lines 536-569.
WorkerOcr(t) ==
    /\ wpc[t] = "ocr"
    /\ \E out \in OcrOutcomes :
          /\ hist' = [hist EXCEPT ![t].ocr = out,
                                  ![t].ocrCalls = hist[t].ocrCalls + 1,
                                  ![t].prompt = PromptToUse(wlocal[t].custom_prompt)]
          /\ CASE out[1] = "text" ->
                     /\ wlocal' = [wlocal EXCEPT ![t].text = out[2]]
                     /\ wpc' = [wpc EXCEPT ![t] = "check_text"]
               [] out[1] = "none" ->
                     /\ wlocal' = [wlocal EXCEPT ![t].text = None]
                     /\ wpc' = [wpc EXCEPT ![t] = "check_text"]
               [] out[1] = "raise" ->
                     /\ wlocal' = [wlocal EXCEPT ![t].err = ErrorType(out[2])]
                     /\ wpc' = [wpc EXCEPT ![t] =
                                   IF ExceptClause(out[2]) = "none"
                                     THEN "dead" ELSE "set_error"]
    /\ UNCHANGED <<dvars, svars, cvars, nvars, xvars>>
    /\ UNCHANGED <<simulation_mode, enable_preanalysis, running, mpc, button, n,
                   result_dict, shown>>

TextIsResultInverted(text) == text = None

\* line 528: the test that decides between 'completed' and 'error'.
TextIsResult(text) == text # None

\* lines 528-529 (the text is stored) or 531-532 (None: the status is set to error)
WorkerCheckText(t) ==
    /\ wpc[t] = "check_text"
    /\ IF TextIsResult(wlocal[t].text)
          THEN /\ SetField(t, "ocr_text", wlocal[t].text)
               /\ wpc' = [wpc EXCEPT ![t] = "set_completed"]
               /\ wlocal' = wlocal
          ELSE /\ SetField(t, "status", "error")
               /\ wlocal' = [wlocal EXCEPT ![t].err = "OCRError"]
               /\ wpc' = [wpc EXCEPT ![t] = "set_err_msg"]
    /\ UNCHANGED <<dvars, svars, cvars, nvars, xvars>>
    /\ UNCHANGED <<simulation_mode, enable_preanalysis, running, mpc, button, n,
                   hist, shown>>

\* line 530: the last write of a successful run; the thread ends.
WorkerSetCompleted(t) ==
    /\ wpc[t] = "set_completed"
    /\ SetField(t, "status", "completed")
    /\ wpc' = [wpc EXCEPT ![t] = "dead"]
    /\ UNCHANGED <<dvars, svars, cvars, nvars, xvars>>
    /\ UNCHANGED <<simulation_mode, enable_preanalysis, running, mpc, button, n,
                   wlocal, hist, shown>>

\* lines 532, 537, 546, 554, 561: every failure path first sets the status
WorkerSetError(t) ==
    /\ wpc[t] = "set_error"
    /\ SetField(t, "status", "error")
    /\ wpc' = [wpc EXCEPT ![t] = "set_err_msg"]
    /\ UNCHANGED <<dvars, svars, cvars, nvars, xvars>>
    /\ UNCHANGED <<simulation_mode, enable_preanalysis, running, mpc, button, n,
                   wlocal, hist, shown>>

\* lines 533, 538, 547, 555, 562
WorkerSetErrMsg(t) ==
    /\ wpc[t] = "set_err_msg"
    /\ SetField(t, "error", ErrMsg(wlocal[t].err))
    /\ wpc' = [wpc EXCEPT ![t] = "set_err_type"]
    /\ UNCHANGED <<dvars, svars, cvars, nvars, xvars>>
    /\ UNCHANGED <<simulation_mode, enable_preanalysis, running, mpc, button, n,
                   wlocal, hist, shown>>

\* lines 534, 539, 548, 556, 563: the kind of the failure; the thread ends after
\* the logging that follows.
WorkerSetErrType(t) ==
    /\ wpc[t] = "set_err_type"
    /\ SetField(t, "error_type", wlocal[t].err)
    /\ wpc' = [wpc EXCEPT ![t] = "dead"]
    /\ UNCHANGED <<dvars, svars, cvars, nvars, xvars>>
    /\ UNCHANGED <<simulation_mode, enable_preanalysis, running, mpc, button, n,
                   wlocal, hist, shown>>

Worker(t) ==
    \/ WorkerBegin(t)
    \/ WorkerClassify(t)
    \/ WorkerSetSkipped(t)
    \/ WorkerSetSkipReason(t)
    \/ WorkerSetOcr(t)
    \/ WorkerOcr(t)
    \/ WorkerCheckText(t)
    \/ WorkerSetCompleted(t)
    \/ WorkerSetError(t)
    \/ WorkerSetErrMsg(t)
    \/ WorkerSetErrType(t)

----------------------------------------------------------------------------
(* BookReader.run and BookReader.process_trigger: the main thread.          *)

\* The trigger line changes level whenever the user acts on the button, whatever
\* the program is doing.
PressButton ==
    /\ ~button
    /\ button' = TRUE
    /\ UNCHANGED <<dvars, svars, cvars, nvars, xvars>>
    /\ UNCHANGED <<simulation_mode, enable_preanalysis, running, mpc, n,
                   result_dict, wpc, wlocal, hist, shown>>

ReleaseButton ==
    /\ button
    /\ button' = FALSE
    /\ UNCHANGED <<dvars, svars, cvars, nvars, xvars>>
    /\ UNCHANGED <<simulation_mode, enable_preanalysis, running, mpc, n,
                   result_dict, wpc, wlocal, hist, shown>>

\* run, lines 966-976: the interval wait ends and process_trigger is called.
SimulatedTrigger ==
    /\ simulation_mode
    /\ mpc = "idle"
    /\ n < MaxTriggers
    /\ n' = n + 1
    /\ mpc' = "capture"
    /\ UNCHANGED <<dvars, svars, cvars, nvars, xvars>>
    /\ UNCHANGED <<simulation_mode, enable_preanalysis, running, button,
                   result_dict, wpc, wlocal, hist, shown>>

\* run, lines 993-998 with _detect_click lines 440-451: the line is sampled
\* asserted and the detector starts to follow the press.
DetectPressed ==
    /\ ~simulation_mode
    /\ running
    /\ mpc = "idle"
    /\ button
    /\ mpc' = "pressed"
    /\ UNCHANGED <<dvars, svars, cvars, nvars, xvars>>
    /\ UNCHANGED <<simulation_mode, enable_preanalysis, running, button, n,
                   result_dict, wpc, wlocal, hist, shown>>

\* _detect_click lines 454-474 and run lines 998-1007: the line is sampled
\* released; the detector returns True (run calls process_trigger) or False (the
\* loop polls again). Which of the two depends on the timing, which is the subject
\* of SpecDetect.
DetectReleased ==
    /\ mpc = "pressed"
    /\ ~button
    /\ \E click \in BOOLEAN :
          IF click
            THEN /\ n < MaxTriggers
                 /\ n' = n + 1
                 /\ mpc' = "capture"
            ELSE /\ n' = n
                 /\ mpc' = "idle"
    /\ UNCHANGED <<dvars, svars, cvars, nvars, xvars>>
    /\ UNCHANGED <<simulation_mode, enable_preanalysis, running, button,
                   result_dict, wpc, wlocal, hist, shown>>

\* play_sound (838-859) has played the sounds to their end for trigger t, and
\* process_trigger returns.
PlaySound(t, sounds) == [hist EXCEPT ![t].cues = hist[t].cues \o sounds,
                                     ![t].returned = TRUE]

\* A capture failure that is not noticed: the worker is started all the same.
CaptureFailedStartsWorker ==
    /\ hist' = [hist EXCEPT ![n].captured = "fail",
                            ![n].cues = Append(hist[n].cues, "error_sound")]
    /\ result_dict' = [result_dict EXCEPT ![n] = NewResultDict]
    /\ wlocal' = [wlocal EXCEPT ![n] = NewLocals]
    /\ wpc' = [wpc EXCEPT ![n] = "begin"]
    /\ mpc' = "poll"

\* process_trigger lines 869-871: capture_frame returned None; play_sound is
\* called with the error sound.
CaptureFailed ==
    /\ hist' = [hist EXCEPT ![n].captured = "fail"]
    /\ mpc' = "play_sound"
    /\ UNCHANGED <<result_dict, wlocal, wpc>>

\* process_trigger lines 875-888: result_dict is created and the worker started.
CaptureSucceeded ==
    /\ hist' = [hist EXCEPT ![n].captured = "ok"]
    /\ result_dict' = [result_dict EXCEPT ![n] = NewResultDict]
    /\ wlocal' = [wlocal EXCEPT ![n] = NewLocals]
    /\ wpc' = [wpc EXCEPT ![n] = "begin"]
    /\ mpc' = "poll"

\* process_trigger lines 867-888: capture the frame (capture_frame, 616-781,
\* returns a frame or None) and branch on the result.
CaptureFrame ==
    /\ mpc = "capture"
    /\ \E ok \in BOOLEAN : IF ok THEN CaptureSucceeded ELSE CaptureFailed
    /\ UNCHANGED <<dvars, svars, cvars, nvars, xvars>>
    /\ UNCHANGED <<simulation_mode, enable_preanalysis, running, button, n, shown>>

PollLoopExitsOnTerminalStatus(t) == result_dict[t].status \in TerminalStatus

PollLoopExitsAtOnce(t) == TRUE

\* A polling loop that waits for the status 'completed'.
PollLoopExitsOnCompleted(t) == result_dict[t].status = "completed"

\* process_trigger line 900: the condition under which the polling loop is left.
PollLoopExits(t) == ~ThreadIsAlive(t)

PollStatusWritesDefault ==
    /\ mpc = "poll"
    /\ ~PollLoopExits(n)
    /\ shown' = result_dict[n].status
    /\ result_dict' = [result_dict EXCEPT ![n].status = "starting"]
    /\ UNCHANGED <<dvars, svars, cvars, nvars, xvars>>
    /\ UNCHANGED <<simulation_mode, enable_preanalysis, running, mpc, button, n,
                   wpc, wlocal, hist>>

\* process_trigger lines 900-904: one pass of the polling loop; the status is read
\* and shown, nothing is written to result_dict.
PollStatus ==
    /\ mpc = "poll"
    /\ ~PollLoopExits(n)
    /\ shown' = result_dict[n].status
    /\ UNCHANGED <<dvars, svars, cvars, nvars, xvars>>
    /\ UNCHANGED <<simulation_mode, enable_preanalysis, running, mpc, button, n,
                   result_dict, wpc, wlocal, hist>>

\* process_trigger lines 900 and 907: the loop ends and the thread is joined.
JoinWorker ==
    /\ mpc = "poll"
    /\ PollLoopExits(n)
    /\ mpc' = "feedback"
    /\ UNCHANGED <<dvars, svars, cvars, nvars, xvars>>
    /\ UNCHANGED <<simulation_mode, enable_preanalysis, running, button, n,
                   result_dict, wpc, wlocal, hist, shown>>

FeedbackCuesWithoutSkip(d) ==
    CASE d.status = "completed" ->
            IF Truthy(d.ocr_text) /\ Truthy(Strip(d.ocr_text))
              THEN <<"success_sound">>
              ELSE <<"error_sound">>
      [] OTHER -> <<"error_sound">>

FeedbackCuesFallThrough(d) ==
    CASE d.status = "skipped" -> <<>>
      [] d.status = "completed" ->
            IF Truthy(d.ocr_text) /\ Truthy(Strip(d.ocr_text))
              THEN <<"success_sound", "error_sound">>
              ELSE <<"error_sound">>
      [] OTHER -> <<"error_sound">>

\* process_trigger lines 910-947: the sounds played for a final result_dict.
FeedbackCues(d) ==
    CASE d.status = "skipped" -> <<>>
      [] d.status = "completed" ->
            IF Truthy(d.ocr_text) /\ Truthy(Strip(d.ocr_text))
              THEN <<"success_sound">>
              ELSE <<"error_sound">>
      [] d.status = "error" -> <<"error_sound">>
      [] OTHER -> <<"error_sound">>

\* A play_sound that starts the playback and does not wait for its end.
FeedbackReturnsAtOnce ==
    /\ mpc = "feedback"
    /\ hist' = [hist EXCEPT ![n].returned = TRUE]
    /\ mpc' = "idle"
    /\ UNCHANGED <<dvars, svars, cvars, nvars, xvars>>
    /\ UNCHANGED <<simulation_mode, enable_preanalysis, running, button, n,
                   result_dict, wpc, wlocal, shown>>

\* process_trigger lines 910-947: the final status is read; a skipped run returns
\* at once (915), every other one calls play_sound.
Feedback ==
    /\ mpc = "feedback"
    /\ IF FeedbackCues(result_dict[n]) = <<>>
         THEN /\ hist' = [hist EXCEPT ![n].returned = TRUE]
              /\ mpc' = "idle"
         ELSE /\ hist' = hist
              /\ mpc' = "play_sound"
    /\ UNCHANGED <<dvars, svars, cvars, nvars, xvars>>
    /\ UNCHANGED <<simulation_mode, enable_preanalysis, running, button, n,
                   result_dict, wpc, wlocal, shown>>

\* The sounds play_sound was called for by the process_trigger call in progress.
CuesDue ==
    IF hist[n].captured = "fail" THEN <<"error_sound">>
                                 ELSE FeedbackCues(result_dict[n])

\* play_sound lines 851-859: the playback has ended (get_busy is False), play_sound
\* returns and with it process_trigger (872, 947); run is back in its loop.
PlaySoundDone ==
    /\ mpc = "play_sound"
    /\ hist' = PlaySound(n, CuesDue)
    /\ mpc' = "idle"
    /\ UNCHANGED <<dvars, svars, cvars, nvars, xvars>>
    /\ UNCHANGED <<simulation_mode, enable_preanalysis, running, button, n,
                   result_dict, wpc, wlocal, shown>>

\* Ctrl+C: run lines 1009-1014 (hardware mode) or main lines 1046-1055; the loop
\* is left and cleanup sets running to False. A worker that is still alive is a
\* daemon thread and keeps going until the process exits.
KeyboardInterrupt ==
    /\ mpc # "stopped"
    /\ mpc' = "stopped"
    /\ running' = FALSE
    /\ UNCHANGED <<dvars, svars, cvars, nvars, xvars>>
    /\ UNCHANGED <<simulation_mode, enable_preanalysis, button, n,
                   result_dict, wpc, wlocal, hist, shown>>

\* BookReader.__init__ (129-148): the configuration is read, nothing has run.
InitPipeline ==
    /\ simulation_mode \in BOOLEAN
    /\ enable_preanalysis \in BOOLEAN
    /\ running = TRUE
    /\ mpc = "idle"
    /\ button = FALSE
    /\ n = 0
    /\ result_dict = [t \in Triggers |-> NoResultDict]
    /\ wpc = [t \in Triggers |-> "none"]
    /\ wlocal = [t \in Triggers |-> NewLocals]
    /\ hist = [t \in Triggers |-> NewHist]
    /\ shown = "waiting"

\* The detector's variables while the pipeline is the subject.
DetectorAtRest ==
    /\ debounce_delay = 0
    /\ dpc = "idle"
    /\ wake = 0
    /\ line = FALSE
    /\ drunning = FALSE
    /\ elapsed = 0
    /\ held = 0
    /\ origin = "none"
    /\ edges = 0
    /\ reasserted = FALSE
    /\ ret = "none"
    /\ clicks = 0
    /\ lastDuration = 0
    /\ rises = 0

\* The service's variables while it is not the subject.
ServiceAtRest ==
    /\ gpio_backend = "None"
    /\ svc = "none"
    /\ requested_sim = FALSE
    /\ svc_simulation = FALSE
    /\ hw_setup = "not_run"
    /\ held_res = {}
    /\ svc_running = FALSE
    /\ loops = 0
    /\ spc = "idle"
    /\ last = "none"
    /\ calls = 0

\* A JSON text of the answer: form is "object", "list" (valid JSON that is not
\* an object) or "not_json"; for an object, the value of its has_text key
\* ("true", "false", "null", or "absent" when it has none), of scene_type, and
\* whether it has a key 'error'.
JsonText(form, has_text, scene_type, error) ==
    [form |-> form, has_text |-> has_text, scene_type |-> scene_type,
     error |-> error]

NoJson == JsonText("none", "absent", "absent", "absent")

\* No dictionary: analyze_image has not returned.
NoAnalysis ==
    [error |-> "absent", has_text |-> "absent", scene_type |-> "absent",
     suggested_prompt |-> None, returned |-> FALSE]

\* The classifier's variables while it is not the subject.
ClassifierAtRest ==
    /\ api_reply = [exc |-> "none", raw |-> <<>>]
    /\ vpc = "idle"
    /\ analysis_result = NoAnalysis
    /\ verdict = <<FALSE, None>>

\* GPIOButtonService.__init__ lines 175-178: no callback is registered; the
\* loop is not inside _notify_callbacks.
NotifierAtRest ==
    /\ callbacks = <<>>
    /\ npc = "loop"
    /\ cb_i = 0
    /\ cb_log = <<>>
    /\ cb_changed = FALSE
    /\ cb_start = <<>>
    /\ notified = 0
    /\ prev_raised = FALSE

\* Module level of gpio_button_service.py, line 473: _gpio_service is None and
\* no service object exists.
NoInstance == [made |-> FALSE, running |-> FALSE, simulation_mode |-> FALSE]

GlobalAtRest ==
    /\ gpio_service = 0
    /\ inst = [i \in Instances |-> NoInstance]
    /\ created = 0
    /\ glast = "none"

\* No process_ocr call of a web variant is under way.
NoWebCall ==
    [variant |-> "none", preanalysis |-> FALSE, classifier |-> <<"none", None>>,
     ocr |-> <<"none", None>>, user_prompt |-> None]

\* The locals of process_ocr as the call begins (line 495: custom_prompt = None),
\* nothing sent and nothing returned.
NewWebCall ==
    [custom_prompt |-> None, logged |-> <<>>, clsCalls |-> 0, ocrCalls |-> 0,
     sent |-> "nothing", text |-> None, status |-> "none", reason |-> None]

WebAtRest ==
    /\ web_in = NoWebCall
    /\ web_pc = "idle"
    /\ web = NewWebCall

\* _load_ocr_results (remote 403-413) with no result file: the history is empty.
ResultsAtRest ==
    /\ ocr_results = <<>>
    /\ added = 0
    /\ rlast = "none"

OthersAtRest == GlobalAtRest /\ WebAtRest /\ ResultsAtRest

Init ==
    InitPipeline /\ DetectorAtRest /\ ServiceAtRest /\ ClassifierAtRest
        /\ NotifierAtRest /\ OthersAtRest

Next ==
    \/ PressButton
    \/ ReleaseButton
    \/ SimulatedTrigger
    \/ DetectPressed
    \/ DetectReleased
    \/ CaptureFrame
    \/ PollStatus
    \/ JoinWorker
    \/ Feedback
    \/ PlaySoundDone
    \/ KeyboardInterrupt
    \/ \E t \in Triggers : Worker(t)

Spec == Init /\ [][Next]_vars

\* The same program with its threads scheduled: the worker thread keeps running
\* and each of its collaborator calls returns or raises (requests.post is given
\* timeout=self.request_timeout, line 821); the main thread goes on from
\* capture_frame, from the polling loop once the worker has ended, from the
\* feedback branch, and from play_sound when the playback is over.
SpecFair ==
    /\ Spec
    /\ WF_vars(\E t \in Triggers : Worker(t))
    /\ WF_vars(CaptureFrame)
    /\ WF_vars(JoinWorker)
    /\ WF_vars(Feedback)
    /\ WF_vars(PlaySoundDone)

----------------------------------------------------------------------------
(* The click detector: GPIOButtonService._run_loop (hardware branch) and       *)
(* _detect_click; BookReader._detect_click is the same code.                   *)
(*                                                                             *)
(* Time is counted in ticks of 10 ms, the poll interval of the loops. The line  *)
(* changes level at tick boundaries only and keeps it for the whole tick. The  *)
(* thread acts at tick boundaries, when its time.sleep has run out (wake = 0). *)

\* time.sleep(0.01) of the polling loops, in ticks
PollInterval == 1

\* 0.1 <= press_duration <= 5.0 (seconds), in ticks
MinPress == 10
MaxPress == 500

\* debounce_delay values: 0.05 s and the default 0.2 s, in ticks
DebounceDelays == {5, 20}

\* longest time the callbacks of one click keep the loop busy, in ticks
MaxBusy == 2

\* clicks, and asserted intervals, counted before the counters stop
MaxClicks == 2

Min(a, b) == IF a < b THEN a ELSE b

MaxDebounce == CHOOSE d \in DebounceDelays : \A e \in DebounceDelays : e <= d

\* Counters of elapsed time stop counting here: beyond MaxPress every value is
\* "too long", and below it they are exact.
TimeCap == MaxPress + MaxDebounce + 1

\* A call of _detect_click is following a press.
InCycle == dpc \in {"press_debounce", "wait_release", "release_debounce"}

\* _run_loop line 362: the loop ends once running is False.
LoopExit ==
    /\ dpc = "idle"
    /\ wake = 0
    /\ ~drunning
    /\ dpc' = "stopped"
    /\ UNCHANGED <<debounce_delay, wake, line, drunning, elapsed, held, origin,
                   edges, reasserted, ret, clicks, lastDuration>>
    /\ UNCHANGED <<rises, pvars, svars, cvars, nvars, xvars>>

\* _detect_click lines 311-312, _run_loop line 365: the line is not asserted; the
\* call returns False and the loop sleeps one poll interval.
DetectNoPress ==
    /\ dpc = "idle"
    /\ wake = 0
    /\ drunning
    /\ ~line
    /\ wake' = PollInterval
    /\ UNCHANGED <<debounce_delay, dpc, line, drunning, elapsed, held, origin,
                   edges, reasserted, ret, clicks, lastDuration>>
    /\ UNCHANGED <<rises, pvars, svars, cvars, nvars, xvars>>

\* _detect_click lines 311-318: the line is asserted; press_time is taken and the
\* thread sleeps debounce_delay.
DetectPress ==
    /\ dpc = "idle"
    /\ wake = 0
    /\ drunning
    /\ line
    /\ elapsed' = 0
    /\ wake' = debounce_delay
    /\ dpc' = "press_debounce"
    /\ edges' = 1
    /\ reasserted' = FALSE
    /\ ret' = "none"
    /\ lastDuration' = 0
    /\ UNCHANGED <<debounce_delay, line, drunning, held, origin, clicks>>
    /\ UNCHANGED <<rises, pvars, svars, cvars, nvars, xvars>>

\* return False from _detect_click, then the sleep of _run_loop line 365.
ReturnFalse(why) ==
    /\ ret' = why
    /\ dpc' = "idle"
    /\ wake' = PollInterval
    /\ elapsed' = 0
    /\ UNCHANGED clicks

\* A second sample that is taken and not looked at: the call goes on to the
\* release wait whatever the level.
PressConfirmUnchecked ==
    /\ dpc = "press_debounce"
    /\ wake = 0
    /\ dpc' = "wait_release"
    /\ UNCHANGED <<wake, elapsed, ret, clicks>>
    /\ UNCHANGED <<debounce_delay, line, drunning, held, origin, edges, reasserted,
                   lastDuration>>
    /\ UNCHANGED <<rises, pvars, svars, cvars, nvars, xvars>>

\* A detector that reports the press as soon as it is confirmed, without waiting
\* for the release.
PressConfirmEmitsClick ==
    /\ dpc = "press_debounce"
    /\ wake = 0
    /\ IF ~line
         THEN ReturnFalse("noise")
         ELSE /\ ret' = "click"
              /\ clicks' = Min(clicks + 1, MaxClicks)
              /\ dpc' = "notify"
              /\ elapsed' = 0
              /\ \E busy \in 0..MaxBusy : wake' = busy
    /\ UNCHANGED <<debounce_delay, line, drunning, held, origin, edges, reasserted,
                   lastDuration>>
    /\ UNCHANGED <<rises, pvars, svars, cvars, nvars, xvars>>

\* _detect_click lines 321-322: the second sample. Not asserted: noise, return
\* False. Asserted: go on to the release wait.
PressConfirm ==
    /\ dpc = "press_debounce"
    /\ wake = 0
    /\ IF ~line
         THEN ReturnFalse("noise")
         ELSE /\ dpc' = "wait_release"
              /\ UNCHANGED <<wake, elapsed, ret, clicks>>
    /\ UNCHANGED <<debounce_delay, line, drunning, held, origin, edges, reasserted,
                   lastDuration>>
    /\ UNCHANGED <<rises, pvars, svars, cvars, nvars, xvars>>

StopNeverSeen == FALSE

\* _detect_click line 326: the stop flag as the release wait tests it.
StopRequested == ~drunning

\* _detect_click lines 325-331: one pass of the release wait. Still asserted: leave
\* if running is False, else sleep one poll interval. Released: sleep
\* debounce_delay.
WaitRelease ==
    /\ dpc = "wait_release"
    /\ wake = 0
    /\ IF line
         THEN IF StopRequested
                THEN ReturnFalse("stopped")
                ELSE /\ wake' = PollInterval
                     /\ UNCHANGED <<dpc, elapsed, ret, clicks>>
         ELSE /\ dpc' = "release_debounce"
              /\ wake' = debounce_delay
              /\ UNCHANGED <<elapsed, ret, clicks>>
    /\ UNCHANGED <<debounce_delay, line, drunning, held, origin, edges, reasserted,
                   lastDuration>>
    /\ UNCHANGED <<rises, pvars, svars, cvars, nvars, xvars>>

ReleaseUnchecked(level) == TRUE

\* _detect_click line 334: the sample that confirms the release.
ReleaseConfirmed(level) == ~level

\* _detect_click line 342: the accepted press durations.
DurationValid(press_duration) ==
    MinPress <= press_duration /\ press_duration <= MaxPress

\* _detect_click lines 334-346 and _run_loop lines 363-364: the last sample.
\* Asserted again: return False. Released: press_duration = now - press_time; in
\* range, return True and _run_loop calls the callbacks; else return False.
ReleaseConfirm ==
    /\ dpc = "release_debounce"
    /\ wake = 0
    /\ IF ~ReleaseConfirmed(line)
         THEN /\ ReturnFalse("reasserted")
              /\ UNCHANGED lastDuration
         ELSE /\ lastDuration' = elapsed
              /\ IF DurationValid(elapsed)
                   THEN /\ ret' = "click"
                        /\ clicks' = Min(clicks + 1, MaxClicks)
                        /\ dpc' = "notify"
                        /\ elapsed' = 0
                        /\ \E busy \in 0..MaxBusy : wake' = busy
                   ELSE ReturnFalse("range")
    /\ UNCHANGED <<debounce_delay, line, drunning, held, origin, edges, reasserted>>
    /\ UNCHANGED <<rises, pvars, svars, cvars, nvars, xvars>>

\* A loop that remembers an edge seen while the callbacks ran and notifies for it
\* when they return.
NotifyDoneReplaysEdge ==
    /\ dpc = "notify"
    /\ wake = 0
    /\ IF origin = "busy" /\ edges = 0
         THEN /\ clicks' = Min(clicks + 1, MaxClicks)
              /\ edges' = 1
              /\ \E busy \in 0..MaxBusy : wake' = busy
              /\ UNCHANGED dpc
         ELSE /\ dpc' = "idle"
              /\ wake' = PollInterval
              /\ UNCHANGED <<edges, clicks>>
    /\ UNCHANGED <<debounce_delay, line, drunning, elapsed, held, origin,
                   reasserted, ret, lastDuration>>
    /\ UNCHANGED <<rises, pvars, svars, cvars, nvars, xvars>>

\* _run_loop lines 364-365: the callbacks have returned; the loop sleeps one poll
\* interval.
NotifyDone ==
    /\ dpc = "notify"
    /\ wake = 0
    /\ dpc' = "idle"
    /\ wake' = PollInterval
    /\ UNCHANGED <<debounce_delay, line, drunning, elapsed, held, origin, edges,
                   reasserted, ret, clicks, lastDuration>>
    /\ UNCHANGED <<rises, pvars, svars, cvars, nvars, xvars>>

\* stop line 415 (BookReader.cleanup line 1019): another thread clears running.
StopDetector ==
    /\ drunning
    /\ dpc # "stopped"
    /\ drunning' = FALSE
    /\ UNCHANGED <<debounce_delay, dpc, wake, line, elapsed, held, origin, edges,
                   reasserted, ret, clicks, lastDuration>>
    /\ UNCHANGED <<rises, pvars, svars, cvars, nvars, xvars>>

\* The line rises. While a _detect_click call is following a press, the new
\* interval is one more interval of that call and its length is not followed;
\* otherwise it is followed from here.
LineRises ==
    /\ line' = TRUE
    /\ IF InCycle
         THEN /\ origin' = "cycle"
              /\ edges' = 2
              /\ held' = 0
         ELSE /\ origin' = IF dpc = "idle" THEN "idle" ELSE "busy"
              /\ edges' = 0
              /\ held' = 1

LineStaysAsserted ==
    /\ line' = TRUE
    /\ held' = IF origin = "cycle" THEN 0 ELSE Min(held + 1, TimeCap)
    /\ UNCHANGED <<origin, edges>>

LineFalls ==
    /\ line' = FALSE
    /\ UNCHANGED <<held, origin, edges>>

LineStaysReleased ==
    /\ line' = FALSE
    /\ UNCHANGED <<held, origin, edges>>

\* One tick passes while the thread sleeps (or, in "notify", runs the callbacks);
\* the line takes the level it has during the next tick.
Tick ==
    /\ wake > 0
    /\ wake' = wake - 1
    /\ elapsed' = IF InCycle THEN Min(elapsed + 1, TimeCap) ELSE elapsed
    /\ IF line THEN LineStaysAsserted \/ LineFalls
               ELSE LineStaysReleased \/ LineRises
    /\ reasserted' = (reasserted \/ (dpc = "release_debounce" /\ line'))
    /\ rises' = IF ~line /\ line' THEN Min(rises + 1, MaxClicks) ELSE rises
    /\ UNCHANGED <<debounce_delay, dpc, drunning, ret, clicks, lastDuration>>
    /\ UNCHANGED <<pvars, svars, cvars, nvars, xvars>>

\* The pipeline's variables while the detector is the subject.
PipelineAtRest ==
    /\ simulation_mode = FALSE
    /\ enable_preanalysis = FALSE
    /\ running = TRUE
    /\ mpc = "idle"
    /\ button = FALSE
    /\ n = 0
    /\ result_dict = [t \in Triggers |-> NoResultDict]
    /\ wpc = [t \in Triggers |-> "none"]
    /\ wlocal = [t \in Triggers |-> NewLocals]
    /\ hist = [t \in Triggers |-> NewHist]
    /\ shown = "waiting"

\* GPIOButtonService.__init__ (160-194) and start (399-408): the loop thread has
\* just been started; the button is not pressed.
DetectorStarted ==
    /\ debounce_delay \in DebounceDelays
    /\ dpc = "idle"
    /\ wake = 0
    /\ line = FALSE
    /\ drunning = TRUE
    /\ elapsed = 0
    /\ held = 0
    /\ origin = "none"
    /\ edges = 0
    /\ reasserted = FALSE
    /\ ret = "none"
    /\ clicks = 0
    /\ lastDuration = 0
    /\ rises = 0

NextDetect ==
    \/ LoopExit
    \/ DetectNoPress
    \/ DetectPress
    \/ PressConfirm
    \/ WaitRelease
    \/ ReleaseConfirm
    \/ NotifyDone
    \/ StopDetector
    \/ Tick

InitDetect ==
    DetectorStarted /\ PipelineAtRest /\ ServiceAtRest /\ ClassifierAtRest
        /\ NotifierAtRest /\ OthersAtRest

SpecDetect == InitDetect /\ [][NextDetect]_vars

\* The loop thread is scheduled and time passes: a step that stays possible is
\* taken.
SpecDetectFair == SpecDetect /\ WF_vars(NextDetect)

----------------------------------------------------------------------------
(* GPIOButtonService: construction, start, stop. The loop thread is followed   *)
(* only as far as its end; what it does is the subject of SpecDetect.          *)

\* start and stop calls followed
MaxCalls == 4

\* GPIO_BACKEND after _init_gpio (lines 87-139).
Backends == {"None", "gpiod", "rpi-lgpio", "RPi.GPIO"}

\* GPIO_AVAILABLE
GpioAvailable == gpio_backend # "None"

\* How _setup_gpio (196-260) can end: the line is set up; no chip can be opened
\* (gpiod, lines 218-219); the chip or the library refuses the line (243-248,
\* 257-260).
SetupOutcomes == {"ok", "no_chip", "refused"}

\* What _setup_gpio holds when it ends that way.
SetupHolds(backend, outcome) ==
    CASE backend = "gpiod" /\ outcome = "ok" -> {"chip", "line"}
      [] backend = "gpiod" /\ outcome = "refused" -> {"chip"}
      [] backend # "gpiod" /\ outcome = "ok" -> {"pin"}
      [] OTHER -> {}

\* __init__ (160-194): simulation is switched on when the library is missing
\* (184-187); otherwise, unless simulation was asked for, _setup_gpio is called
\* (189-191) and what it raises leaves the constructor.
Construct ==
    /\ svc = "none"
    /\ \E sim \in BOOLEAN, outcome \in SetupOutcomes :
          /\ requested_sim' = sim
          /\ svc_simulation' = (sim \/ ~GpioAvailable)
          /\ IF ~svc_simulation' /\ GpioAvailable
               THEN /\ hw_setup' = IF outcome = "ok" THEN "ok" ELSE "raised"
                    /\ held_res' = SetupHolds(gpio_backend, outcome)
                    /\ svc' = IF outcome = "ok" THEN "ready" ELSE "raised"
               ELSE /\ hw_setup' = "not_run"
                    /\ held_res' = {}
                    /\ svc' = "ready"
          /\ last' = IF svc' = "ready" THEN "init" ELSE "none"
    /\ svc_running' = FALSE
    /\ UNCHANGED <<gpio_backend, loops, spc, calls>>
    /\ UNCHANGED <<pvars, dvars, cvars, nvars, xvars>>

\* start (399-408): nothing if already running; else running is set and a new
\* _run_loop thread started.
Start ==
    /\ svc = "ready"
    /\ spc = "idle"
    /\ calls < MaxCalls
    /\ calls' = calls + 1
    /\ last' = "start"
    /\ IF svc_running
         THEN UNCHANGED <<svc_running, loops>>
         ELSE /\ svc_running' = TRUE
              /\ loops' = loops + 1
    /\ UNCHANGED <<gpio_backend, svc, requested_sim, svc_simulation, hw_setup,
                   held_res, spc>>
    /\ UNCHANGED <<pvars, dvars, cvars, nvars, xvars>>

\* stop lines 412-418: return at once if not running; else clear running and wait
\* in join for the loop thread.
StopBegin ==
    /\ svc = "ready"
    /\ spc = "idle"
    /\ calls < MaxCalls
    /\ calls' = calls + 1
    /\ IF ~svc_running
         THEN /\ last' = "stop"
              /\ UNCHANGED <<svc_running, spc>>
         ELSE /\ svc_running' = FALSE
              /\ spc' = "join"
              /\ UNCHANGED last
    /\ UNCHANGED <<gpio_backend, svc, requested_sim, svc_simulation, hw_setup,
                   held_res, loops>>
    /\ UNCHANGED <<pvars, dvars, cvars, nvars, xvars>>

\* _cleanup (424-449): gpiod releases the line and closes the chip; the RPi.GPIO
\* backends clean the pin up unless the service is in simulation mode.
Cleanup(res) ==
    CASE gpio_backend = "gpiod" -> {}
      [] gpio_backend \in {"rpi-lgpio", "RPi.GPIO"} /\ ~svc_simulation -> {}
      [] OTHER -> res

\* stop lines 418-422: join returns (the thread has ended, or 2 s have passed),
\* then _cleanup, then stop returns.
StopJoin ==
    /\ spc = "join"
    /\ held_res' = Cleanup(held_res)
    /\ spc' = "idle"
    /\ last' = "stop"
    /\ UNCHANGED <<gpio_backend, svc, requested_sim, svc_simulation, hw_setup,
                   svc_running, loops, calls>>
    /\ UNCHANGED <<pvars, dvars, cvars, nvars, xvars>>

\* _run_loop lines 354, 362: a loop thread finds running False and ends.
LoopThreadEnds ==
    /\ loops > 0
    /\ ~svc_running
    /\ loops' = loops - 1
    /\ UNCHANGED <<gpio_backend, svc, requested_sim, svc_simulation, hw_setup,
                   held_res, svc_running, spc, last, calls>>
    /\ UNCHANGED <<pvars, dvars, cvars, nvars, xvars>>

\* _read_gpio (262-292): what a read of the line can give. Simulation: False.
\* gpiod: the level while the line request is held; after _cleanup gpio_line is
\* None, get_value fails and the except clause (283-285) returns False. RPi.GPIO
\* and rpi-lgpio: the level while the pin is set up; afterwards GPIO.input is
\* called on a pin that is no longer set up and nothing catches what it raises.
ReadGpio ==
    CASE svc_simulation -> {"released"}
      [] gpio_backend = "gpiod" ->
            IF "line" \in held_res THEN {"asserted", "released"} ELSE {"released"}
      [] gpio_backend \in {"rpi-lgpio", "RPi.GPIO"} ->
            IF "pin" \in held_res THEN {"asserted", "released"}
                                  ELSE {"raise", "asserted", "released"}
      [] OTHER -> {"released"}

\* _run_loop lines 362-363: _read_gpio raises inside _detect_click; nothing in
\* _detect_click or _run_loop catches it and the thread ends. running is left as
\* it is.
LoopReadRaises ==
    /\ loops > 0
    /\ "raise" \in ReadGpio
    /\ loops' = loops - 1
    /\ UNCHANGED <<gpio_backend, svc, requested_sim, svc_simulation, hw_setup,
                   held_res, svc_running, spc, last, calls>>
    /\ UNCHANGED <<pvars, dvars, cvars, nvars, xvars>>

\* The module has been imported (_init_gpio has chosen the backend); no service
\* has been constructed.
ServiceNotConstructed ==
    /\ gpio_backend \in Backends
    /\ svc = "none"
    /\ requested_sim = FALSE
    /\ svc_simulation = FALSE
    /\ hw_setup = "not_run"
    /\ held_res = {}
    /\ svc_running = FALSE
    /\ loops = 0
    /\ spc = "idle"
    /\ last = "none"
    /\ calls = 0

NextService ==
    \/ Construct
    \/ Start
    \/ StopBegin
    \/ StopJoin
    \/ LoopThreadEnds
    \/ LoopReadRaises

InitService ==
    ServiceNotConstructed /\ PipelineAtRest /\ DetectorAtRest
        /\ ClassifierAtRest /\ NotifierAtRest /\ OthersAtRest

SpecService == InitService /\ [][NextService]_vars

----------------------------------------------------------------------------
(* OpenAIVisionService.should_perform_ocr and analyze_image. The answer of   *)
(* the model is a sequence of pieces: code fences, prose, and a JSON text.   *)

\* The exceptions the request can raise, one for each except clause of
\* analyze_image (171-202) that is about the request.
ApiErrors ==
    {"RateLimitError", "APIConnectionError", "APIError", "OpenAIError",
     "Exception"}

\* The JSON texts an answer can hold.
JsonTexts ==
    {JsonText("not_json", "absent", "absent", "absent"),
     JsonText("list", "absent", "absent", "absent")}
        \cup {JsonText("object", h, sc, e) :
                 h \in {"true", "false", "null", "absent"},
                 sc \in {"book", "absent"},
                 e \in {"present", "absent"}}

Piece(kind) == [tok |-> kind, val |-> NoJson]

JsonPiece(j) == [tok |-> "text", val |-> j]

\* raw_response (line 139): the JSON alone, in a fence marked json, in a bare
\* fence, in a fence marked json with prose around it, or after prose without a
\* fence.
RawResponses ==
    UNION {{<<JsonPiece(j)>>,
            <<Piece("fence_json"), JsonPiece(j), Piece("fence")>>,
            <<Piece("fence"), JsonPiece(j), Piece("fence")>>,
            <<Piece("prose"), Piece("fence_json"), JsonPiece(j), Piece("fence"),
              Piece("prose")>>,
            <<Piece("prose"), JsonPiece(j)>>} : j \in JsonTexts}

\* What client.chat.completions.create (114-136) does: it raises, or it answers.
ApiReplies ==
    {[exc |-> e, raw |-> <<>>] : e \in ApiErrors}
        \cup {[exc |-> "none", raw |-> r] : r \in RawResponses}

IsFence(p) == p.tok \in {"fence_json", "fence"}

\* Lines 145-148, split at the fence and split again: what follows the first
\* piece sep, up to the next fence.
BetweenFences(raw, sep) ==
    LET first == CHOOSE i \in 1..Len(raw) :
                     raw[i].tok = sep /\ \A k \in 1..(i - 1) : raw[k].tok # sep
        rest == SubSeq(raw, first + 1, Len(raw))
        stops == {i \in 1..Len(rest) : IsFence(rest[i])}
        stop == IF stops = {} THEN Len(rest) + 1
                ELSE CHOOSE i \in stops : \A k \in stops : i <= k
    IN  SubSeq(rest, 1, stop - 1)

\* Lines 144-148: json_str.
ExtractJson(raw) ==
    IF \E i \in 1..Len(raw) : raw[i].tok = "fence_json"
      THEN BetweenFences(raw, "fence_json")
      ELSE IF \E i \in 1..Len(raw) : raw[i].tok = "fence"
             THEN BetweenFences(raw, "fence")
             ELSE raw

\* json.loads (150) returns a value: the string is one JSON text and nothing
\* else. Otherwise it raises JSONDecodeError.
JsonLoads(json_str) ==
    IF /\ Len(json_str) = 1
       /\ json_str[1].tok = "text"
       /\ json_str[1].val.form \in {"object", "list"}
      THEN json_str[1].val
      ELSE NoJson

\* The truth value Python gives to the value of has_text.
PyTruthy(v) == v = "true"

\* The dictionary of every except clause of analyze_image (171-202).
ErrorResult(kind) ==
    [error |-> kind, has_text |-> "false", scene_type |-> "absent",
     suggested_prompt |-> None, returned |-> TRUE]

\* analyze_image lines 113-202. An exception of the request, a string that
\* json.loads refuses, and a JSON value that is no dictionary (the assignment
\* of line 153 raises TypeError) all end in an except clause. A dictionary is
\* returned with the keys it has; suggested_prompt is set from has_text
\* (156-165).
AnalyzeImage(reply) ==
    IF reply.exc # "none" THEN ErrorResult(reply.exc)
    ELSE LET value == JsonLoads(ExtractJson(reply.raw))
         IN  CASE value.form = "none" -> ErrorResult("JSONDecodeError")
               [] value.form = "list" -> ErrorResult("Exception")
               [] OTHER ->
                    [error |-> value.error,
                     has_text |-> value.has_text,
                     scene_type |-> value.scene_type,
                     suggested_prompt |->
                         IF PyTruthy(value.has_text) THEN "suggested" ELSE None,
                     returned |-> TRUE]

\* should_perform_ocr lines 275-292, on the dictionary analyze_image returned.
ShouldPerformOcr(result) ==
    IF result.error # "absent"
      THEN <<TRUE, FreeOcrPrompt>>
      ELSE IF PyTruthy(result.has_text)
             THEN <<TRUE, result.suggested_prompt>>
             ELSE <<FALSE, "no text in image">>

\* should_perform_ocr line 272: analyze_image is called and returns.
AnalyzeImageReturns ==
    /\ vpc = "called"
    /\ analysis_result' = AnalyzeImage(api_reply)
    /\ vpc' = "analyzed"
    /\ UNCHANGED <<api_reply, verdict>>
    /\ UNCHANGED <<pvars, dvars, svars, nvars, xvars>>

\* should_perform_ocr lines 275-292: the pair is returned.
ShouldPerformOcrReturns ==
    /\ vpc = "analyzed"
    /\ verdict' = ShouldPerformOcr(analysis_result)
    /\ vpc' = "returned"
    /\ UNCHANGED <<api_reply, analysis_result>>
    /\ UNCHANGED <<pvars, dvars, svars, nvars, xvars>>

\* should_perform_ocr has been called with the JPEG bytes of a frame.
ClassifierCalled ==
    /\ api_reply \in ApiReplies
    /\ vpc = "called"
    /\ analysis_result = NoAnalysis
    /\ verdict = <<FALSE, None>>

NextClassify ==
    \/ AnalyzeImageReturns
    \/ ShouldPerformOcrReturns

InitClassify ==
    ClassifierCalled /\ PipelineAtRest /\ DetectorAtRest /\ ServiceAtRest
        /\ NotifierAtRest /\ OthersAtRest

SpecClassify == InitClassify /\ [][NextClassify]_vars

----------------------------------------------------------------------------
(* GPIOButtonService._notify_callbacks, on_click and off_click. The loop      *)
(* thread is followed from one click to the next; how a click is detected is  *)
(* the subject of SpecDetect.                                                 *)

\* callback functions that exist
MaxCallbacks == 2

\* _notify_callbacks calls followed
MaxNotified == 2

CallbackIds == 1..MaxCallbacks

\* callback in self.callbacks (lines 384, 395)
Registered(c) == \E i \in 1..Len(callbacks) : callbacks[i] = c

\* An on_click that appends without looking.
OnClickAppends(list, c) == Append(list, c)

\* on_click lines 384-385: the list after on_click(c).
OnClickList(list, c) ==
    IF \E i \in 1..Len(list) : list[i] = c THEN list ELSE Append(list, c)

\* off_click lines 395-396: the list after off_click(c); list.remove takes out
\* the first item equal to c.
OffClickList(list, c) ==
    IF \E i \in 1..Len(list) : list[i] = c
      THEN LET first == CHOOSE i \in 1..Len(list) :
                            list[i] = c /\ \A k \in 1..(i - 1) : list[k] # c
           IN  SubSeq(list, 1, first - 1) \o SubSeq(list, first + 1, Len(list))
      ELSE list

\* get_status line 468: callbacks_count
CallbacksCount == Len(callbacks)

\* on_click (377-386), called by any thread (a callback that is running
\* included), at any time.
OnClick(c) ==
    /\ callbacks' = OnClickList(callbacks, c)
    /\ cb_changed' = (cb_changed \/ callbacks' # callbacks)
    /\ UNCHANGED <<npc, cb_i, cb_log, cb_start, notified, prev_raised>>
    /\ UNCHANGED <<pvars, dvars, svars, cvars, xvars>>

\* off_click (388-397), called in the same way.
OffClick(c) ==
    /\ callbacks' = OffClickList(callbacks, c)
    /\ cb_changed' = (cb_changed \/ callbacks' # callbacks)
    /\ UNCHANGED <<npc, cb_i, cb_log, cb_start, notified, prev_raised>>
    /\ UNCHANGED <<pvars, dvars, svars, cvars, xvars>>

\* A callback returns, or raises an exception (a subclass of Exception).
CallbackOutcomes == {"return", "raise"}

\* Some call of the last _notify_callbacks raised.
LogHasRaise == \E k \in 1..Len(cb_log) : cb_log[k][2] = "raise"

\* _run_loop lines 356-358 and 363-364: a click (simulated or detected);
\* _notify_callbacks is called and its for loop starts.
Click ==
    /\ npc = "loop"
    /\ notified < MaxNotified
    /\ npc' = "notify"
    /\ cb_i' = 0
    /\ cb_log' = <<>>
    /\ cb_changed' = FALSE
    /\ cb_start' = callbacks
    /\ prev_raised' = (prev_raised \/ LogHasRaise)
    /\ UNCHANGED <<callbacks, notified>>
    /\ UNCHANGED <<pvars, dvars, svars, cvars, xvars>>

\* A call of the callbacks with no try around it.
ExceptNothing(outcome) == FALSE

\* _notify_callbacks lines 374-375: 'except Exception' catches what the callback
\* raised.
ExceptException(outcome) == outcome = "raise"

\* _notify_callbacks lines 371-375: the for loop takes the next item of the list
\* (the item at the position it has reached, in the list as it is now) and
\* calls it. What is raised and not caught ends the loop thread.
NotifyCallback ==
    /\ npc = "notify"
    /\ cb_i < Len(callbacks)
    /\ \E outcome \in CallbackOutcomes :
          /\ cb_log' = Append(cb_log, <<callbacks[cb_i + 1], outcome>>)
          /\ npc' = IF outcome = "raise" /\ ~ExceptException(outcome)
                      THEN "dead" ELSE "notify"
    /\ cb_i' = cb_i + 1
    /\ UNCHANGED <<callbacks, cb_changed, cb_start, notified, prev_raised>>
    /\ UNCHANGED <<pvars, dvars, svars, cvars, xvars>>

\* _notify_callbacks line 371: the list has no further item; the for loop ends
\* and _notify_callbacks returns to _run_loop.
NotifyReturns ==
    /\ npc = "notify"
    /\ cb_i >= Len(callbacks)
    /\ npc' = "loop"
    /\ notified' = notified + 1
    /\ UNCHANGED <<callbacks, cb_i, cb_log, cb_changed, cb_start, prev_raised>>
    /\ UNCHANGED <<pvars, dvars, svars, cvars, xvars>>

NextNotify ==
    \/ \E c \in CallbackIds : OnClick(c)
    \/ \E c \in CallbackIds : OffClick(c)
    \/ Click
    \/ NotifyCallback
    \/ NotifyReturns

InitNotify ==
    NotifierAtRest /\ PipelineAtRest /\ DetectorAtRest /\ ServiceAtRest
        /\ ClassifierAtRest /\ OthersAtRest

SpecNotify == InitNotify /\ [][NextNotify]_vars

----------------------------------------------------------------------------
(* Claims about the coordinator and the pipeline, checked under Spec.       *)

AliveWorkers == {t \in Triggers : wpc[t] \notin {"none", "dead"}}

\* C1: at most one _processing_worker thread is alive at any instant, whatever the
\* sequence of clicks and simulated triggers.
C1_SingleWorker == Cardinality(AliveWorkers) <= 1

\* C1 witness: a second worker is running after the first one has ended.
C1_Witness == wpc[1] = "dead" /\ wpc[2] \notin {"none", "dead"}

\* C2: when the worker of a later run has been started, every earlier run has a
\* terminal status (completed, skipped or error).
C2_TerminalBeforeNext ==
    \A s, t \in Triggers :
        (s < t /\ wpc[s] # "none" /\ wpc[t] # "none")
            => result_dict[s].status \in TerminalStatus

\* C2 witness: in hardware mode the worker of run 2 has just been started, after
\* run 1 ended in error.
C2_Witness ==
    /\ ~simulation_mode
    /\ wpc[2] = "begin"
    /\ result_dict[1].status = "error"

\* C6: a failed capture ends the trigger with the error sound (it is playing, or
\* has been played and process_trigger has returned); no worker is started and
\* neither the classifier nor the OCR client is called.
C6_CaptureFailure ==
    \A t \in Triggers :
        hist[t].captured = "fail" =>
            /\ wpc[t] = "none"
            /\ result_dict[t] = NoResultDict
            /\ hist[t].clsCalls = 0
            /\ hist[t].ocrCalls = 0
            /\ \/ n = t /\ mpc = "play_sound" /\ hist[t].cues = <<>>
               \/ n = t /\ mpc = "stopped" /\ hist[t].cues = <<>>
               \/ hist[t].cues = <<"error_sound">> /\ hist[t].returned

\* C6 witness: the capture of the second trigger failed after a first run that
\* did start a worker.
C6_Witness == hist[2].captured = "fail" /\ hist[2].returned /\ wpc[1] = "dead"

\* C7: with pre-analysis enabled and a classifier answer of "no text", the run
\* ends skipped, the OCR client is never called and no sound is played.
C7_SkippedIsSilent ==
    \A t \in Triggers :
        (enable_preanalysis /\ hist[t].cls = "no_text") =>
            /\ hist[t].ocrCalls = 0
            /\ hist[t].cues = <<>>
            /\ result_dict[t].status \in {"openai_analysis", "skipped"}
            /\ (wpc[t] = "dead" => result_dict[t].status = "skipped")

\* C7 witness: process_trigger has returned from a skipped run.
C7_Witness ==
    \E t \in Triggers :
        hist[t].cls = "no_text" /\ hist[t].returned /\ result_dict[t].status = "skipped"

\* C8 (as claimed): when the classifier call raises, the worker still calls the OCR
\* client, with the default instruction.
C8_ClassifierErrorFailsOpen ==
    \A t \in Triggers :
        (hist[t].cls = "raise" /\ wpc[t] = "dead") =>
            /\ hist[t].ocrCalls = 1
            /\ hist[t].prompt \in {ocr_prompt, FreeOcrPrompt}

\* C9: pre-analysis disabled, capture succeeded, the OCR client returned non-blank
\* text: the run is completed with that text, the classifier was never called,
\* the success sound was played exactly once and the error sound never.
C9_PlainRunCompletes ==
    \A t \in Triggers :
        (/\ ~enable_preanalysis
         /\ hist[t].captured = "ok"
         /\ hist[t].ocr[1] = "text"
         /\ Strip(hist[t].ocr[2]) # "") =>
            /\ hist[t].clsCalls = 0
            /\ hist[t].ocrCalls = 1
            /\ IF hist[t].returned
                 THEN /\ result_dict[t].status = "completed"
                      /\ result_dict[t].ocr_text = hist[t].ocr[2]
                      /\ hist[t].cues = <<"success_sound">>
                 ELSE hist[t].cues = <<>>

\* C9 witness: such a run has returned.
C9_Witness ==
    \E t \in Triggers :
        /\ ~enable_preanalysis
        /\ hist[t].ocr = <<"text", "Hello">>
        /\ hist[t].returned

\* C10 (as claimed): empty or whitespace-only text from the OCR client ends the run
\* with status error and kind EmptyResult, never with status completed.
C10_BlankTextFails ==
    \A t \in Triggers :
        (hist[t].ocr[1] = "text" /\ Strip(hist[t].ocr[2]) = "" /\ wpc[t] = "dead") =>
            /\ result_dict[t].status = "error"
            /\ result_dict[t].error_type = "EmptyResult"

\* C11: a process_trigger call that has returned made the one play_sound call its
\* end state asks for: success_sound for a run completed with text, error_sound
\* for a failed capture, a failed run or a run completed with blank text, none
\* for a skipped run; no call ever plays two sounds, and none is played before
\* the end state is known.
C11_OneFeedbackAction ==
    \A t \in Triggers :
        /\ Len(hist[t].cues) <= 1
        /\ (~hist[t].returned => hist[t].cues = <<>>)
        /\ (hist[t].returned =>
              hist[t].cues =
                CASE hist[t].captured = "fail" -> <<"error_sound">>
                  [] result_dict[t].status = "skipped" -> <<>>
                  [] result_dict[t].status = "completed"
                       /\ Strip(result_dict[t].ocr_text) # "" -> <<"success_sound">>
                  [] OTHER -> <<"error_sound">>)

\* C11 witness: a run that completed with text has played the success sound and
\* the next run, which failed, has played the error sound.
C11_Witness ==
    /\ result_dict[1].status = "completed"
    /\ hist[1].cues = <<"success_sound">>
    /\ hist[2].returned
    /\ result_dict[2].status = "error"
    /\ hist[2].cues = <<"error_sound">>

\* C12: an exception raised by the classifier (or the encoder before it) or by the
\* OCR client is handled inside the worker: the thread is in an except clause
\* or has ended, it ends with status error and the error fields set,
\* process_trigger returns after the error sound, and the main loop is still
\* running unless the user interrupted it.
C12_WorkerErrorsAreCaught ==
    \A t \in Triggers :
        (hist[t].cls = "raise" \/ hist[t].ocr[1] = "raise") =>
            /\ wpc[t] \in {"set_error", "set_err_msg", "set_err_type", "dead"}
            /\ (wpc[t] = "dead" =>
                  /\ result_dict[t].status = "error"
                  /\ result_dict[t].error # None
                  /\ result_dict[t].error_type # None)
            /\ (hist[t].returned => hist[t].cues = <<"error_sound">>)
            /\ (mpc # "stopped" =>
                  /\ running
                  /\ mpc \in {"idle", "pressed", "capture", "poll", "feedback",
                              "play_sound"})

\* C12 witness: the classifier raised in run 1, process_trigger returned, and the
\* worker of the next trigger has been started.
C12_Witness ==
    /\ hist[1].cls = "raise"
    /\ hist[1].returned
    /\ wpc[2] = "begin"

\* C13 (as claimed): in every state of result_dict, status error comes with error
\* and error_type set, status skipped with skip_reason set and status completed
\* with ocr_text set.
C13_ConsistentSnapshot ==
    \A t \in Triggers :
        /\ (result_dict[t].status = "error" =>
              result_dict[t].error # None /\ result_dict[t].error_type # None)
        /\ (result_dict[t].status = "skipped" => result_dict[t].skip_reason # None)
        /\ (result_dict[t].status = "completed" => result_dict[t].ocr_text # None)

\* The changes of status one run can make (the first is the creation of the
\* dictionary by process_trigger).
StatusEdges ==
    {<<"absent", "starting">>,
     <<"starting", "openai_analysis">>, <<"starting", "ocr_processing">>,
     <<"openai_analysis", "ocr_processing">>, <<"openai_analysis", "skipped">>,
     <<"openai_analysis", "error">>,
     <<"ocr_processing", "completed">>, <<"ocr_processing", "error">>}

\* C14: every change of a run's status is a step forward along
\* starting -> openai_analysis -> ocr_processing -> completed | error, with
\* openai_analysis entered only when pre-analysis is enabled and skipped entered
\* only from openai_analysis; completed, skipped and error are never left.
C14_StatusMovesForward ==
    [][\A t \in Triggers :
          result_dict'[t].status # result_dict[t].status =>
              /\ <<result_dict[t].status, result_dict'[t].status>> \in StatusEdges
              /\ (result_dict'[t].status = "openai_analysis" => enable_preanalysis)
              /\ (result_dict[t].status = "starting" /\ enable_preanalysis =>
                    result_dict'[t].status = "openai_analysis")]_vars

\* C14 witness: run 1 went through the classification to completed and run 2
\* ended skipped.
C14_Witness ==
    /\ hist[1].cls = "text"
    /\ result_dict[1].status = "completed"
    /\ result_dict[2].status = "skipped"

ExpectedResult(h) ==
    CASE h.cls = "no_text" ->
            [NewResultDict EXCEPT !.status = "skipped",
                                  !.skip_reason = "no text in image"]
      [] h.cls = "raise" ->
            [NewResultDict EXCEPT !.status = "error",
                                  !.error = "str(exception)",
                                  !.error_type = "RuntimeError"]
      [] h.ocr[1] = "text" ->
            [NewResultDict EXCEPT !.status = "completed", !.ocr_text = h.ocr[2]]
      [] h.ocr[1] = "none" ->
            [NewResultDict EXCEPT !.status = "error",
                                  !.error = "OCR API returned None",
                                  !.error_type = "OCRError"]
      [] OTHER ->
            [NewResultDict EXCEPT !.status = "error",
                                  !.error = "str(exception)",
                                  !.error_type = h.ocr[2]]

\* C19: while process_trigger is in its polling loop, a step that is not a step of
\* the worker leaves result_dict and the worker's locals as they are, and the
\* result_dict a worker leaves behind depends on the collaborators' answers
\* only, not on how often or when the status was polled.
C19_PollingIsReadOnly ==
    /\ [][(mpc = "poll" /\ wpc' = wpc) => UNCHANGED <<result_dict, wlocal>>]_vars
    /\ [](\A t \in Triggers :
             wpc[t] = "dead" => result_dict[t] = ExpectedResult(hist[t]))

\* C19 witness: the loop has polled status openai_analysis, the worker has moved on
\* to ocr_processing since, and the loop is still polling.
C19_Witness ==
    /\ mpc = "poll"
    /\ n = 2
    /\ shown = "openai_analysis"
    /\ result_dict[2].status = "ocr_processing"

\* C20: in simulation mode, whenever run is in the interval wait for the next
\* trigger, every process_trigger call made so far has returned and its worker
\* has ended.
C20_TimerAfterReturn ==
    (simulation_mode /\ mpc = "idle") =>
        \A t \in 1..n :
            /\ hist[t].returned
            /\ ~ThreadIsAlive(t)

\* C20 witness: the interval wait after two simulated runs that started a worker.
C20_Witness ==
    /\ simulation_mode
    /\ mpc = "idle"
    /\ n = 2
    /\ wpc[1] = "dead"
    /\ wpc[2] = "dead"

\* C22, as stated: the status of a run does not become 'completed' before the
\* playback of its cue has ended.
C22_CompletedAfterPlayback ==
    \A t \in Triggers :
        result_dict[t].status = "completed" => hist[t].cues # <<>>

\* C22, amended: play_sound blocks.  While a cue is playing the worker of the
\* run has ended and process_trigger has not returned; process_trigger returns
\* from a run that is not skipped only when its cue has been played to the end;
\* and no trigger is taken while a cue is playing.
C22_PlaybackBlocksReturn ==
    /\ [](\A t \in Triggers :
            /\ (hist[t].returned /\ result_dict[t].status # "skipped")
                   => Len(hist[t].cues) = 1
            /\ (mpc = "play_sound" /\ t = n)
                   => ~hist[t].returned /\ ~ThreadIsAlive(t)
            /\ t < n => hist[t].returned)
    /\ [][mpc = "play_sound" => n' = n]_vars

\* C22 witness: the success cue of the second run is playing, its status has
\* been 'completed' since the worker ended, and the first run played its cue.
C22_Witness ==
    /\ mpc = "play_sound"
    /\ n = 2
    /\ result_dict[2].status = "completed"
    /\ result_dict[2].ocr_text = "Hello"
    /\ hist[1].cues = <<"error_sound">>

\* C23: every started run reaches a terminal status, and every process_trigger
\* call returns unless the program is interrupted from the keyboard; a request
\* to the OCR service that timed out leaves the run with status 'error' and
\* error_type 'Timeout'.
C23_RunsTerminate ==
    /\ \A t \in Triggers :
           /\ (wpc[t] = "begin") ~> (result_dict[t].status \in TerminalStatus)
           /\ (n = t /\ mpc = "capture") ~> (hist[t].returned \/ mpc = "stopped")
    /\ [](\A t \in Triggers :
            (hist[t].ocr = <<"raise", "Timeout">> /\ ~ThreadIsAlive(t)) =>
                /\ result_dict[t].status = "error"
                /\ result_dict[t].error_type = "Timeout")

\* C23 witness: the request of the second run timed out, the run has status
\* 'error' and process_trigger has returned.
C23_Witness ==
    /\ hist[2].ocr = <<"raise", "Timeout">>
    /\ result_dict[2].status = "error"
    /\ result_dict[2].error_type = "Timeout"
    /\ hist[2].returned
    /\ mpc = "idle"

\* C34: when process_trigger reads the result and chooses the cue (and while the
\* cue plays), the worker thread has ended and result_dict holds its last
\* writes: the status is terminal and is the one the collaborators' answers
\* lead to, with ocr_text, error and error_type as written after it.
C34_FeedbackReadsFinalResult ==
    (mpc \in {"feedback", "play_sound"} /\ hist[n].captured = "ok") =>
        /\ ~ThreadIsAlive(n)
        /\ result_dict[n].status \in TerminalStatus
        /\ result_dict[n] = ExpectedResult(hist[n])

\* C34 witness: process_trigger is about to choose the cue of the second run,
\* whose request timed out; error and error_type were written after the status.
C34_Witness ==
    /\ mpc = "feedback"
    /\ n = 2
    /\ result_dict[2].status = "error"
    /\ result_dict[2].error_type = "Timeout"
    /\ result_dict[2].error # None

----------------------------------------------------------------------------
(* Claims about the click detector, checked under SpecDetect.               *)

\* The call that has just returned followed one asserted interval only, and that
\* interval has ended: held is the time the button was held for this press.
CleanPress == edges = 1 /\ ~line /\ origin \in {"idle", "busy"}

\* C3 (as claimed): a press held for less than 0.1 s or for more than 5.0 s emits
\* no click, whatever debounce_delay is and whenever polling begins.
C3_OutOfRangePressSilent ==
    (ret = "click" /\ CleanPress) => (MinPress <= held /\ held <= MaxPress)

Returned == ret \in {"noise", "reasserted", "range", "click"}

\* C4 (as claimed): a clean press of duration d with 0.1 s <= d <= 5.0 s, sampled
\* from its first tick and followed by a released line, emits a click whose
\* computed duration is d up to the poll interval.
C4_CleanPressClicks ==
    (/\ Returned
     /\ CleanPress
     /\ origin = "idle"
     /\ MinPress <= held /\ held <= MaxPress) =>
        /\ ret = "click"
        /\ lastDuration - held <= PollInterval
        /\ held - lastDuration <= PollInterval

\* C5 (as claimed): a press that is released and asserted again within the
\* debounce window after the release emits no click.
C5_BounceSilent == ret = "click" => ~reasserted

\* C5 (amended): when the line is asserted at the sample taken debounce_delay
\* after the release was seen, the detector's step is a return of False: no click
\* is emitted, the detector is back in idle and the press time is dropped, not
\* restarted.
C5_ReassertionAtSampleCancels ==
    [][(dpc = "release_debounce" /\ wake = 0 /\ line /\ dpc' # dpc) =>
          (/\ ret' = "reasserted"
           /\ clicks' = clicks
           /\ dpc' = "idle"
           /\ elapsed' = 0)]_vars

\* C5 witness: a call has ended that way and the line is still asserted.
C5_Witness ==
    /\ ret = "reasserted"
    /\ reasserted
    /\ line
    /\ dpc = "idle"

\* C15: in the release wait with the line asserted, once running is False the
\* next poll of _detect_click is a return of False without a click; and once
\* running is False the loop thread ends, whatever the line does afterwards,
\* also when the button is never released.
C15_StopEndsReleaseWait ==
    /\ [][(dpc = "wait_release" /\ wake = 0 /\ line /\ ~drunning) =>
             (ret' = "stopped" /\ clicks' = clicks /\ dpc' = "idle")]_vars
    /\ (~drunning ~> dpc = "stopped")

\* C15 witness: the loop has ended after a call that was stopped in the release
\* wait, and the button is still held.
C15_Witness ==
    /\ dpc = "stopped"
    /\ ret = "stopped"
    /\ line
    /\ edges = 1

\* C21: triggers are not queued. While the callbacks of a click run (the run is
\* active) the line is not sampled: no click is emitted and no call returns.  A
\* run is started only by a _detect_click call that began in the idle loop and
\* has just taken its last sample.  An interval of the line that began and ended
\* while the callbacks ran starts no run for as long as the line stays released.
C21_TriggersNotQueued ==
    [][/\ dpc = "notify" =>
            /\ clicks' = clicks
            /\ ret' = ret
            /\ dpc' \in {"notify", "idle"}
       /\ (dpc # "notify" /\ dpc' = "notify") =>
            /\ dpc = "release_debounce"
            /\ edges >= 1
            /\ ret' = "click"
       /\ clicks' # clicks => (dpc # "notify" /\ dpc' = "notify")
       /\ (origin = "busy" /\ edges = 0 /\ ~line /\ ~line') =>
            /\ clicks' = clicks
            /\ dpc' = "notify" => dpc = "notify"]_vars

\* C21 witness: the button was pressed and released while the callbacks of the
\* first click ran; the loop is polling again and no second click was emitted.
C21_Witness ==
    /\ origin = "busy"
    /\ edges = 0
    /\ ~line
    /\ rises = 2
    /\ dpc = "idle"
    /\ wake = 0
    /\ ret = "click"
    /\ clicks = 1

\* C25: the clicks emitted never outnumber the asserted intervals of the line
\* (both counted up to MaxClicks).
C25_OneClickPerInterval == clicks <= rises

\* C25 witness: one asserted interval, one click, and the loop has polled again
\* since without emitting another.
C25_Witness ==
    /\ rises = 1
    /\ clicks = 1
    /\ ret = "click"
    /\ dpc = "idle"
    /\ wake = 0
    /\ edges = 1

\* C26: when the sample taken after debounce_delay finds the line released, the
\* call returns False for noise: the loop is idle again, no click is emitted and
\* the release wait is not entered.
C26_NoisePulseIgnored ==
    [][(dpc = "press_debounce" /\ wake = 0 /\ ~line /\ drunning' = drunning) =>
          /\ dpc' = "idle"
          /\ ret' = "noise"
          /\ clicks' = clicks
          /\ wake' = PollInterval]_vars

\* C26 witness: a pulse shorter than debounce_delay was sampled asserted once and
\* then dismissed as noise.
C26_Witness ==
    /\ ret = "noise"
    /\ dpc = "idle"
    /\ edges = 1
    /\ held >= 1
    /\ held < debounce_delay
    /\ clicks = 0

----------------------------------------------------------------------------
(* Claims about the service's life cycle, checked under SpecService.        *)

\* C16 (as claimed): once stop has returned on a service constructed in hardware
\* mode, the hardware resources taken by the constructor have been released,
\* whatever start and stop calls came before.
C16_StopReleasesLine ==
    (svc = "ready" /\ hw_setup = "ok" /\ last = "stop" /\ spc = "idle") =>
        held_res = {}

\* C17 (as claimed): when simulation was not asked for and the hardware could not
\* be initialised (no library, or _setup_gpio raised), the constructor returns
\* a service in simulation mode and does not raise.
C17_InitFallsBack ==
    (/\ svc # "none"
     /\ ~requested_sim
     /\ (~GpioAvailable \/ hw_setup = "raised")) =>
        (svc = "ready" /\ svc_simulation)

\* C27 (as claimed): whatever start and stop calls were made, at most one thread
\* is executing _run_loop.
C27_OneLoopThread == loops <= 1

\* C28 (as claimed): once stop has returned, no loop thread is left, so that no
\* callback runs and the line is not read after _cleanup.
C28_StopJoinsThread ==
    (svc = "ready" /\ last = "stop" /\ spc = "idle") => loops = 0

\* C29 (as claimed): a hardware-mode service that is running, after a restart as
\* after the first start, has a loop thread alive whose reads of the line give
\* the level of the button.
C29_RestartKeepsWorking ==
    (svc = "ready" /\ ~svc_simulation /\ svc_running) =>
        /\ loops >= 1
        /\ ReadGpio = {"asserted", "released"}

----------------------------------------------------------------------------
(* Claims about should_perform_ocr, checked under SpecClassify.             *)

\* C24 (as claimed): should_perform_ocr is fail-open. When the analysis failed
\* (analyze_image returned a dictionary with 'error') it returns True with the
\* default instruction; it returns False only when the answer was parsed and
\* its has_text is false.
C24_FailOpen ==
    vpc = "returned" =>
        /\ analysis_result.error # "absent" => verdict = <<TRUE, FreeOcrPrompt>>
        /\ ~verdict[1] =>
              /\ analysis_result.error = "absent"
              /\ analysis_result.has_text = "false"

----------------------------------------------------------------------------
(* Claims about _notify_callbacks, checked under SpecNotify.                 *)

\* The callbacks called for the last click, in the order of the calls.
LogIds == [k \in 1..Len(cb_log) |-> cb_log[k][1]]

\* C30: an exception raised by a callback does not leave _notify_callbacks: the
\* for loop goes on to the next item and the loop thread stays alive. When the
\* list was not changed since the click, the callbacks called so far are the
\* first cb_i of the list, and all of it once _notify_callbacks has returned,
\* whichever of them raised.
C30_RaisingCallbackContained ==
    /\ [](npc # "dead")
    /\ []((~cb_changed /\ npc = "notify") => LogIds = SubSeq(callbacks, 1, cb_i))
    /\ []((~cb_changed /\ npc = "loop" /\ notified > 0) => LogIds = callbacks)
    /\ [][(npc = "notify" /\ cb_i' = cb_i + 1 /\ cb_log'[cb_i'][2] = "raise") =>
              npc' = "notify"]_vars

\* C30 witness: a callback raised during the first click; for the second click
\* the first callback raised again and the second was called after it.
C30_Witness ==
    /\ prev_raised
    /\ notified = 2
    /\ npc = "loop"
    /\ ~cb_changed
    /\ callbacks = <<1, 2>>
    /\ cb_log = <<<<1, "raise">>, <<2, "return">>>>

\* Number of calls of callback c made for the last click.
TimesCalled(c) == Cardinality({k \in 1..Len(cb_log) : cb_log[k][1] = c})

\* C31 (as claimed): when _notify_callbacks has returned, each callback that was
\* registered when the notification began has been called exactly once,
\* whatever on_click and off_click calls were made meanwhile.
C31_EveryCallbackOnce ==
    (npc = "loop" /\ notified > 0) =>
        \A c \in CallbackIds :
            (\E i \in 1..Len(cb_start) : cb_start[i] = c) => TimesCalled(c) = 1

\* C32: the list holds each callback at most once; on_click of a registered
\* callback and off_click of an unregistered one give the list back as it is;
\* on_click of an unregistered callback adds it at the end and off_click of a
\* registered one takes it out; callbacks_count is the number of registered
\* callbacks.
C32_RegistrationIsIdempotent ==
    /\ \A i, k \in 1..Len(callbacks) : callbacks[i] = callbacks[k] => i = k
    /\ CallbacksCount = Cardinality({c \in CallbackIds : Registered(c)})
    /\ \A c \in CallbackIds :
          IF Registered(c)
            THEN /\ OnClickList(callbacks, c) = callbacks
                 /\ Len(OffClickList(callbacks, c)) = Len(callbacks) - 1
                 /\ \A i \in 1..(Len(callbacks) - 1) :
                        OffClickList(callbacks, c)[i] # c
            ELSE /\ OffClickList(callbacks, c) = callbacks
                 /\ OnClickList(callbacks, c) = Append(callbacks, c)

\* C32 witness: both callbacks are registered, the second before the first, the
\* list was changed after the last click, and every further on_click finds its
\* callback registered.
C32_Witness ==
    /\ callbacks = <<2, 1>>
    /\ cb_changed
    /\ notified = 1

----------------------------------------------------------------------------
(* The module-level service of gpio_button_service.py: _gpio_service and the   *)
(* functions that set it. start and stop are followed as far as self.running   *)
(* goes; what they do to the loop thread is the subject of SpecService.        *)

\* get_gpio_service (476-478): the global as it is.
GetGpioService == gpio_service

StopLeavesRunning(f, i) == f

\* GPIOButtonService.stop (410-422) on instance i: a running service has
\* running = False afterwards (415), any other is left alone (412-413).
StopInstance(f, i) ==
    IF f[i].running THEN [f EXCEPT ![i].running = FALSE] ELSE f

\* GPIOButtonService.start (399-408) on instance i: running = True (405); a
\* running service is left alone (401-403).
StartInstance(f, i) ==
    IF f[i].running THEN f ELSE [f EXCEPT ![i].running = TRUE]

\* GPIOButtonService.__init__ (160-194) as init_gpio_service calls it: running is
\* False (176); _setup_gpio is called unless simulation was asked for (190-191)
\* and what it raises leaves the constructor.
NewInstance(sim) == [made |-> TRUE, running |-> FALSE, simulation_mode |-> sim]

\* init_gpio_service (481-507): the global instance, if any, is stopped
\* (497-498); a new service is constructed and becomes the global (500-505). When
\* the constructor raises, the assignment does not happen.
InitGpioService ==
    /\ created < MaxInstances
    /\ \E sim \in BOOLEAN, setup \in {"ok", "raised"} :
         LET stopped == IF gpio_service # 0
                          THEN StopInstance(inst, gpio_service) ELSE inst
             new == created + 1
         IN  IF ~sim /\ setup = "raised"
               THEN /\ inst' = stopped
                    /\ glast' = "init_raised"
                    /\ UNCHANGED <<gpio_service, created>>
               ELSE /\ inst' = [stopped EXCEPT ![new] = NewInstance(sim)]
                    /\ gpio_service' = new
                    /\ created' = new
                    /\ glast' = "init"
    /\ UNCHANGED <<pvars, dvars, svars, cvars, nvars, wvars, rvars>>

\* cleanup_gpio_service (510-516): the global instance, if any, is stopped and
\* the global is set to None.
CleanupGpioService ==
    /\ inst' = IF gpio_service # 0 THEN StopInstance(inst, gpio_service) ELSE inst
    /\ gpio_service' = 0
    /\ glast' = "cleanup"
    /\ UNCHANGED created
    /\ UNCHANGED <<pvars, dvars, svars, cvars, nvars, wvars, rvars>>

\* The application calls start() on the service init_gpio_service returned, that
\* is on get_gpio_service().
GlobalStart ==
    /\ GetGpioService # 0
    /\ inst' = StartInstance(inst, GetGpioService)
    /\ glast' = "start"
    /\ UNCHANGED <<gpio_service, created>>
    /\ UNCHANGED <<pvars, dvars, svars, cvars, nvars, wvars, rvars>>

\* The application calls stop() on get_gpio_service().
GlobalStop ==
    /\ GetGpioService # 0
    /\ inst' = StopInstance(inst, GetGpioService)
    /\ glast' = "stop"
    /\ UNCHANGED <<gpio_service, created>>
    /\ UNCHANGED <<pvars, dvars, svars, cvars, nvars, wvars, rvars>>

NextGlobal ==
    \/ InitGpioService
    \/ CleanupGpioService
    \/ GlobalStart
    \/ GlobalStop

InitGlobal ==
    GlobalAtRest /\ PipelineAtRest /\ DetectorAtRest /\ ServiceAtRest
        /\ ClassifierAtRest /\ NotifierAtRest /\ WebAtRest /\ ResultsAtRest

SpecGlobal == InitGlobal /\ [][NextGlobal]_vars

----------------------------------------------------------------------------
(* Claims about the module-level service (SpecGlobal).                         *)

RunningInstances == {i \in Instances : inst[i].made /\ inst[i].running}

\* C33: after any sequence of init_gpio_service and cleanup_gpio_service calls
\* (with start and stop on the global service in between) at most one service
\* created through them has running = True, and it is the global one: a
\* replaced service has been stopped; after cleanup_gpio_service the global is
\* None, get_gpio_service returns None and no service is running.
C33_OneRunningService ==
    /\ Cardinality(RunningInstances) <= 1
    /\ RunningInstances \subseteq {gpio_service}
    /\ glast = "cleanup" => GetGpioService = 0 /\ RunningInstances = {}

\* A running global service was replaced: the replaced one is stopped, the new
\* one has been started.
C33_Witness ==
    /\ created >= 2
    /\ gpio_service = 2
    /\ inst[1].made /\ ~inst[1].running
    /\ inst[2].running

----------------------------------------------------------------------------
(* process_ocr of the web variants: BookReaderRemote (book_reader_remote.py    *)
(* 483-530) and BookReaderStreamlit (book_reader_streamlit.py 537-583), with   *)
(* send_to_ocr_api. The frame is one the caller decoded (remote 593-598), so   *)
(* cv2.imencode of send_to_ocr_api returns.                                    *)

WebVariants == {"remote", "streamlit"}

\* The user_prompt argument of BookReaderRemote.process_ocr: none, empty, blank,
\* or an instruction with blanks around it.
UserPrompts == {None, "", "  ", " read "}

\* str.strip() on those.
StripPrompt(p) == IF p = " read " THEN "read" ELSE Strip(p)

\* What the OCR request does inside the try of send_to_ocr_api (remote 462-481):
\* HTTP 200 with a text, HTTP 200 with no 'text' key, another status code, or an
\* exception of requests.post, of response.json or of a line that follows.
OcrReplies ==
    {<<"200", t>> : t \in Texts} \cup {<<"200_no_text", None>>}
        \cup {<<"status", "500">>}
        \cup {<<"raise", e>> : e \in OcrErrors}

\* The calls of process_ocr followed: the variant, enable_preanalysis and
\* openai_service (line 496), the collaborators, and the user's prompt, which only
\* the remote variant takes.
WebCalls ==
    {c \in [variant : WebVariants, preanalysis : BOOLEAN,
            classifier : ClassifierOutcomes, ocr : OcrReplies,
            user_prompt : UserPrompts] :
        c.variant = "streamlit" => c.user_prompt = None}

PromptClassifierFirst(variant, user_prompt, custom_prompt) ==
    IF Truthy(custom_prompt) THEN custom_prompt
    ELSE IF variant = "remote" /\ Truthy(user_prompt)
                /\ Truthy(StripPrompt(user_prompt))
           THEN StripPrompt(user_prompt)
           ELSE ocr_prompt

\* prompt_to_use of send_to_ocr_api: remote 445-454 (the user's prompt, stripped,
\* if it is not blank; else custom_prompt if it is set; else self.ocr_prompt),
\* streamlit 507 (custom_prompt if it is set, else self.ocr_prompt).
WebPromptToUse(variant, user_prompt, custom_prompt) ==
    IF variant = "remote" /\ Truthy(user_prompt)
           /\ Truthy(StripPrompt(user_prompt))
      THEN StripPrompt(user_prompt)
      ELSE IF Truthy(custom_prompt) THEN custom_prompt ELSE ocr_prompt

\* data of the request (remote 456-458): the prompt, if there is one.
RequestData(prompt) == IF Truthy(prompt) THEN prompt ELSE "no_prompt"

\* What send_to_ocr_api returns (remote 470-481): result.get('text', '') on HTTP
\* 200, None on another status code and in the except clause.
SendToOcrApi(reply) ==
    CASE reply[1] = "200" -> reply[2]
      [] reply[1] = "200_no_text" -> ""
      [] OTHER -> None

ProcessOcrStatusUnstripped(text) ==
    IF text # None THEN "completed" ELSE "error"

\* The status of the dictionary process_ocr returns after the OCR call (remote
\* 519-530).
ProcessOcrStatus(text) ==
    IF text # None /\ Truthy(Strip(text)) THEN "completed" ELSE "error"

PreAnalysisUncaught(outcome) ==
    CASE outcome[1] = "text" ->
           [go |-> "ocr", custom_prompt |-> outcome[2], reason |-> None,
            logged |-> <<>>]
      [] outcome[1] = "no_text" ->
           [go |-> "returned", custom_prompt |-> None, reason |-> outcome[2],
            logged |-> <<>>]
      [] OTHER ->
           [go |-> "raised", custom_prompt |-> None, reason |-> None,
            logged |-> <<>>]

\* The try block of process_ocr (remote 497-514): (True, prompt) sets
\* custom_prompt, (False, reason) returns the skipped dictionary, and an
\* exception of cv2.imencode or of should_perform_ocr is logged (513-514) and
\* leaves custom_prompt None.
PreAnalysis(outcome) ==
    CASE outcome[1] = "text" ->
           [go |-> "ocr", custom_prompt |-> outcome[2], reason |-> None,
            logged |-> <<>>]
      [] outcome[1] = "no_text" ->
           [go |-> "returned", custom_prompt |-> None, reason |-> outcome[2],
            logged |-> <<>>]
      [] OTHER ->
           [go |-> "ocr", custom_prompt |-> None, reason |-> None,
            logged |-> <<"error">>]

\* process_ocr lines 495-514 (streamlit 548-568): the pre-analysis, if it is
\* enabled and the classifier exists.
ProcessOcrPreanalysis ==
    /\ web_pc = "called"
    /\ IF web_in.preanalysis
         THEN LET r == PreAnalysis(web_in.classifier)
              IN  /\ web' = [web EXCEPT !.clsCalls = @ + 1,
                                         !.custom_prompt = r.custom_prompt,
                                         !.reason = r.reason,
                                         !.logged = r.logged,
                                         !.status = IF r.go = "returned"
                                                      THEN "skipped" ELSE @]
                  /\ web_pc' = r.go
         ELSE /\ web_pc' = "ocr"
              /\ UNCHANGED web
    /\ UNCHANGED web_in
    /\ UNCHANGED <<pvars, dvars, svars, cvars, nvars, gvars, rvars>>

\* process_ocr lines 517-530 (streamlit 571-583): send_to_ocr_api is called and
\* the dictionary is returned.
ProcessOcrSend ==
    /\ web_pc = "ocr"
    /\ LET prompt == WebPromptToUse(web_in.variant, web_in.user_prompt,
                                    web.custom_prompt)
           text == SendToOcrApi(web_in.ocr)
       IN  web' = [web EXCEPT !.ocrCalls = @ + 1,
                              !.sent = RequestData(prompt),
                              !.text = text,
                              !.status = ProcessOcrStatus(text)]
    /\ web_pc' = "returned"
    /\ UNCHANGED web_in
    /\ UNCHANGED <<pvars, dvars, svars, cvars, nvars, gvars, rvars>>

NextWeb ==
    \/ ProcessOcrPreanalysis
    \/ ProcessOcrSend

\* process_ocr has been called.
WebCalled ==
    /\ web_in \in WebCalls
    /\ web_pc = "called"
    /\ web = NewWebCall

InitWeb ==
    WebCalled /\ PipelineAtRest /\ DetectorAtRest /\ ServiceAtRest
        /\ ClassifierAtRest /\ NotifierAtRest /\ GlobalAtRest /\ ResultsAtRest

SpecWeb == InitWeb /\ [][NextWeb]_vars

----------------------------------------------------------------------------
(* Claims about process_ocr of the web variants (SpecWeb).                     *)

ClassifierRan == web_in.preanalysis

ClassifierRaised == ClassifierRan /\ web_in.classifier[1] = "raise"

UserPromptGiven ==
    web_in.variant = "remote" /\ web_in.user_prompt \notin {None, "", "  "}

\* C35: an exception raised by the classifier does not end process_ocr: it is
\* caught and logged, custom_prompt stays None, and the OCR client is invoked
\* once, with the user's prompt or the configured default and never with a
\* classifier prompt; the call returns completed or error.
C35_ClassifierErrorContained ==
    ClassifierRaised =>
        /\ web_pc \in {"called", "ocr", "returned"}
        /\ web_pc # "called" =>
               /\ web.clsCalls = 1
               /\ web.logged = <<"error">>
               /\ web.custom_prompt = None
        /\ web_pc = "returned" =>
               /\ web.ocrCalls = 1
               /\ web.sent = IF UserPromptGiven
                                THEN StripPrompt(web_in.user_prompt)
                                ELSE ocr_prompt
               /\ web.status \in {"completed", "error"}

\* The classifier raised and the call still returned the text of the OCR client.
C35_Witness ==
    /\ ClassifierRaised
    /\ web_pc = "returned"
    /\ web.ocrCalls = 1
    /\ web.status = "completed"
    /\ web.sent = ocr_prompt

\* The OCR client answered with a text that is not blank.
OcrAnsweredText ==
    /\ web.ocrCalls = 1
    /\ web_in.ocr[1] = "200"
    /\ web_in.ocr[2] \notin {"", "  "}

ClassifierSawNoText == ClassifierRan /\ web_in.classifier[1] = "no_text"

C37_PromptPriority ==
    web.ocrCalls = 1 =>
        web.sent =
            IF UserPromptGiven THEN StripPrompt(web_in.user_prompt)
            ELSE IF ClassifierRan /\ web_in.classifier[1] = "text"
                   THEN web_in.classifier[2]
                   ELSE ocr_prompt

\* The user gave a prompt, the classifier suggested another, and the user's was
\* sent.
C37_Witness ==
    /\ web.ocrCalls = 1
    /\ web_in.user_prompt = " read "
    /\ ClassifierRan /\ web_in.classifier = <<"text", "suggested">>
    /\ web.sent = "read"

----------------------------------------------------------------------------
(* The result history of the web variants: add_ocr_result (remote 532-552,     *)
(* streamlit 585-614) and the clearing of the list (remote 632-636, streamlit  *)
(* 916-918). A result stands for the number of the add_ocr_result call that    *)
(* added it.                                                                   *)

\* The limit of the history (remote 548, streamlit 608).
MaxResults == 100

\* add_ocr_result calls followed
MaxAdds == 103

KeepLast(list) ==
    IF Len(list) > MaxResults
      THEN SubSeq(list, Len(list) - MaxResults + 1, Len(list)) ELSE list

\* self.ocr_results.insert(0, result) (remote 545).
InsertFirst(list, result) == <<result>> \o list

\* Lines 548-549: a list longer than the limit is cut to its first 100 items.
KeepFirst(list) ==
    IF Len(list) > MaxResults THEN SubSeq(list, 1, MaxResults) ELSE list

\* add_ocr_result: the result is put in front and the list is cut to the limit
\* (and saved to the result file).
AddOcrResult ==
    /\ added < MaxAdds
    /\ added' = added + 1
    /\ ocr_results' = KeepFirst(InsertFirst(ocr_results, added + 1))
    /\ rlast' = "add"
    /\ UNCHANGED <<pvars, dvars, svars, cvars, nvars, gvars, wvars>>

\* clear_ocr_results (remote 632-636): the list is replaced by an empty one.
ClearOcrResults ==
    /\ ocr_results' = <<>>
    /\ rlast' = "clear"
    /\ UNCHANGED added
    /\ UNCHANGED <<pvars, dvars, svars, cvars, nvars, gvars, wvars>>

NextResults ==
    \/ AddOcrResult
    \/ ClearOcrResults

InitResults ==
    ResultsAtRest /\ PipelineAtRest /\ DetectorAtRest /\ ServiceAtRest
        /\ ClassifierAtRest /\ NotifierAtRest /\ GlobalAtRest /\ WebAtRest

SpecResults == InitResults /\ [][NextResults]_vars

----------------------------------------------------------------------------
(* Claims about the result history (SpecResults).                              *)

\* C38: after any sequence of add_ocr_result calls and clears the history holds
\* at most 100 results; after an add the result just added is the first item;
\* the items are the most recent results added since the last clear, newest
\* first, so what the limit drops is the oldest.
C38_HistoryBounded ==
    /\ Len(ocr_results) <= MaxResults
    /\ rlast = "add" => Len(ocr_results) >= 1 /\ ocr_results[1] = added
    /\ \A i \in 1..Len(ocr_results) : ocr_results[i] = added - i + 1

\* 102 results were added to an empty history: the list holds 100 of them, the
\* last one first, and the first two are gone.
C38_Witness ==
    /\ added = 102
    /\ Len(ocr_results) = MaxResults
    /\ ocr_results[1] = 102
    /\ ocr_results[MaxResults] = 3

====
